---- MODULE Spec2Model ----
(***************************************************************************)
(* A model of the local-mode file transfer service                         *)
(* (LocalFileTransferService) and of the file-name helper it saves with.   *)
(*                                                                         *)
(* Twelve specifications share this module:                                *)
(*   SpecNames    getUniqueFileName over a directory that changes          *)
(*   SpecSession  the sender's listener, handshake and advertising, with   *)
(*                several receivers connecting                             *)
(*   SpecSessionSend  the same, with sendFiles asked of either service     *)
(*   SpecTransfer sendFiles / sendFile on an authenticated connection and  *)
(*                the receiver's data handler and processDataBuffer        *)
(*   SpecHandshake  the handshake of one connection byte by byte, and the  *)
(*                first sendFiles call after it                            *)
(*   SpecBackpressure  sendFile's reads and writes under a socket that     *)
(*                reports a full buffer, with a second connection that     *)
(*                never authenticates                                      *)
(*   SpecTwoCalls  a sendFiles call issued while another is in progress    *)
(*   SpecDiscover discoverServices over the up and down events of its      *)
(*                Bonjour browser                                          *)
(*   SpecProgress the transfer-progress events of one file, on the sender  *)
(*                and on the receiver                                      *)
(*   SpecRemote   sendFilesToRemote and handleRemoteData of the renderer   *)
(*                over the peer channel, with the main process's file      *)
(*                stream handlers                                          *)
(*   SpecRemoteCalls  the same, with a second call of sendFilesToRemote    *)
(*   SpecLifecycle  the sender session with the controller's               *)
(*                cleanupIPCHandlers at window-all-closed and before-quit  *)
(***************************************************************************)
EXTENDS Integers, Sequences, FiniteSets, TLC

VARIABLES
  \* ---- the save directory, for getUniqueFileName (SpecNames) ----
  fsEntries,     \* names that exist in the directory
  nmReq,         \* the name last passed to getUniqueFileName (<<>>: none)
  nmRes,         \* what it returned
  nmBefore,      \* the directory's entries when it was called
  \* ---- the sender service and its connections (SpecSession) ----
  snd,           \* the sender's LocalFileTransferService fields
  listeners,     \* the net.Server objects that are listening
  starts,        \* startSender calls so far
  sock,          \* sender side of connection s: none/open/destroyed/errored/closed
  isAuthenticated, \* the connection handler's isAuthenticated of s
  authTimeout,   \* the connection handler's authTimeout of s is armed
  toSender,      \* data events in flight to the sender on s
  toReceiver,    \* data events in flight to the receiver on s
  rsock,         \* receiver side of connection s: none/open/closed
  promise,       \* the promise connectToSender returned for s
  verdict,       \* whether the code of s's auth record was the sender's
                 \* connectionCode when authHandler got it: none/match/mismatch
  rclient,       \* this.client of the receiver of s is set (not null)
  sendLog,       \* the sendFiles calls made in the session, and how each went
  \* ---- a transfer on connection 1 (SpecTransfer) ----
  rcv,           \* the receiver's LocalFileTransferService fields
  srcFiles,      \* the sender's disk: the content of each path
  wire,          \* bytes in flight from the sender to the receiver
  back,          \* bytes in flight from the receiver to the sender
  sf,            \* the sendFiles call: its paths, file index, read position
  calls,         \* sendFiles calls so far
  fileSeq,       \* sendFile invocations so far (names a file of the session)
  rcvLog,        \* what the receiver did, in order: files written to the
                 \* save directory, file-saved frames written to the socket,
                 \* frames and records it refused, writes that failed
  writeFailed,   \* a writeFileSync of the receiver has thrown
  misread,       \* the receiver's data handler took payload for a reply
  \* ---- a discoverServices call (SpecDiscover) ----
  browser,       \* the browser of the call: none/browsing/stopped
  services,      \* the call's services array
  discovered,    \* what the call's promise resolved with
  upAt,          \* for each service name the browser holds, the event at
                 \* which it came up (0: the browser does not hold it)
  tick,          \* browser events so far
  \* ---- the IPC controller (SpecLifecycle) ----
  localTransferService,  \* the controller holds the service (not null)
  \* ---- the progress events of one file (SpecProgress) ----
  tp,            \* the file's size, the bytes sent and received, and the
                 \* progress values each side has sent to its window
  \* ---- a remote transfer (SpecRemote) ----
  rs,            \* sendFilesToRemote: its files, the file and chunk it is at,
                 \* sendingFiles[transferId].acknowledgedChunks
  toPeer,        \* messages in flight from the sender to the receiver
  toOwner,       \* messages in flight from the receiver to the sender
  rr,            \* the receiving renderer: incomingFiles, fileWriteQueues,
                 \* the queue objects, its invocations of the main process
                 \* that have not completed
  diskFiles      \* the files the main process's stream handlers hold, in
                 \* the order they were created

nameVars == <<fsEntries, nmReq, nmRes, nmBefore>>
sessVars == <<snd, listeners, starts, sock, isAuthenticated, authTimeout,
              toSender, toReceiver, rsock, promise, verdict, rclient, sendLog>>

xferVars == <<rcv, srcFiles, wire, back, sf, calls, fileSeq, rcvLog,
              writeFailed, misread>>

discVars == <<browser, services, discovered, upAt, tick>>

\* the variables beside the directory, the session and the transfer
remoteVars == <<rs, toPeer, toOwner, rr, diskFiles>>

moreVars == <<discVars, localTransferService, tp, remoteVars>>

vars == <<nameVars, sessVars, xferVars, moreVars>>

\* what the actions of one specification leave alone
notNames == <<sessVars, xferVars, moreVars>>
notSession == <<nameVars, xferVars, moreVars>>

(***************************************************************************)
(* Bounds                                                                  *)
(***************************************************************************)
MaxEntries == 3      \* entries the directory holds at most
MaxCounter == 2      \* the environment creates "base (k)ext" for k up to this
MaxConns == 2        \* connections receivers open to the sender
MaxStarts == 2       \* startSender calls
MaxCalls == 2        \* sendFiles calls
MaxRemoteFiles == 2  \* files of the sendFilesToRemote calls, together
MaxRemoteCalls == 2  \* calls of sendFilesToRemote on a connection
MaxChunks == 4       \* chunks of the files of a call, together
MaxSize == 5         \* bytes of the file whose progress is followed
MaxEvents == 4       \* up and down events followed in a discovery window
MaxAsks == 1         \* sendFiles calls followed in a session (SpecSession)
MaxSends == 3        \* files sent in all, over the sendFiles calls
MaxPaths == 1        \* files on the sender's disk
BlockUnits == 2      \* units one read of the file stream returns at most

NULL == 0           \* null, for fields that hold a socket, server or service

(***************************************************************************)
(* File names.  A name is a sequence of characters; path.join(dir, name)   *)
(* and path.basename are inverse to each other on names without a          *)
(* separator, so a path of the save directory is identified with its name. *)
(***************************************************************************)
DigitChar == <<"0", "1", "2", "3", "4", "5", "6", "7", "8", "9">>

RECURSIVE ToDecimal(_)
ToDecimal(n) ==
  IF n < 10 THEN <<DigitChar[n + 1]>>
  ELSE ToDecimal(n \div 10) \o <<DigitChar[(n % 10) + 1]>>

\* index of the last "." of a name, 0 when it has none
LastDot(name) ==
  LET dots == {i \in 1..Len(name) : name[i] = "."}
  IN IF dots = {} THEN 0 ELSE CHOOSE i \in dots : \A j \in dots : j <= i

\* path.extname: from the last "." to the end; empty when there is no ".",
\* when the last "." is the first character, and for the name ".."
ExtName(name) ==
  LET d == LastDot(name)
  IN IF d = 0 \/ d = 1 THEN <<>>
     ELSE IF name[1] = "." /\ d = Len(name) /\ d = 2 THEN <<>>
     ELSE SubSeq(name, d, Len(name))

EndsWith(s, suffix) ==
  /\ Len(suffix) <= Len(s)
  /\ SubSeq(s, Len(s) - Len(suffix) + 1, Len(s)) = suffix

\* path.basename(p, ext): the name without the suffix ext
BaseName(name, ext) ==
  IF Len(ext) > 0 /\ Len(ext) < Len(name) /\ EndsWith(name, ext)
  THEN SubSeq(name, 1, Len(name) - Len(ext))
  ELSE name

\* `${baseName} (${counter})${ext}`
NumberedName(base, counter, ext) ==
  base \o <<" ", "(">> \o ToDecimal(counter) \o <<")">> \o ext

\* the while loop of getUniqueFilePath: uniquePath exists, try counter
RECURSIVE UniqueLoop(_, _, _, _)
UniqueLoop(base, ext, counter, entries) ==
  LET newName == NumberedName(base, counter, ext)
  IN IF newName \in entries
     THEN UniqueLoop(base, ext, counter + 1, entries)
     ELSE newName

\* numbering that starts at 0
GetUniqueFilePathFromZero(name, entries) ==
  IF name \notin entries THEN name
  ELSE UniqueLoop(BaseName(name, ExtName(name)), ExtName(name), 0, entries)

GetUniqueFilePath(name, entries) ==
  IF name \notin entries THEN name
  ELSE LET ext  == ExtName(name)
           base == BaseName(name, ext)
       IN UniqueLoop(base, ext, 1, entries)

GetUniqueFileName(fileName, entries) == GetUniqueFilePath(fileName, entries)

IdleNames ==
  /\ fsEntries = {}
  /\ nmReq = <<>>
  /\ nmRes = <<>>
  /\ nmBefore = {}

(***************************************************************************)
(* The service object.  One record holds the fields of a                   *)
(* LocalFileTransferService; null is NULL, a server is named by its port   *)
(* and a published service by the port it advertises.                      *)
(***************************************************************************)
Socks == 1..MaxConns
Codes == {"A1B-2C3", "D4E-5F6"}     \* values generateConnectionCode can draw

\* no metadata (currentFileMetadata = null), and the data of a record
\* that carries none
NoData ==
  [ fileName |-> <<>>, fileSize |-> 0, currentFile |-> 0, totalFiles |-> 0,
    id |-> 0, path |-> 0 ]

NewService ==
  [ server |-> NULL, client |-> NULL, connectionCode |-> "", port |-> 0,
    isReceiving |-> FALSE, receivingBuffer |-> <<>>,
    currentFileMetadata |-> NoData, receivedBytes |-> 0, dataBuffer |-> <<>>,
    bonjour |-> TRUE, bonjourService |-> NULL, fileSavedResolver |-> NULL,
    isStopping |-> FALSE ]

\* startAdvertising: publishes unless published, not ready or stopping
StartAdvertising(svc) ==
  IF svc.bonjourService # NULL \/ ~svc.bonjour \/ svc.port = 0 \/ svc.isStopping
  THEN svc
  ELSE [svc EXCEPT !.bonjourService = svc.port]

\* stopAdvertising
StopAdvertising(svc) == [svc EXCEPT !.bonjourService = NULL]

\* handlers that publish again when the sender is stopping
OnAuthenticatedLossRestart(svc) ==
  IF ~svc.isStopping THEN [svc EXCEPT !.bonjourService = NULL]
  ELSE [svc EXCEPT !.bonjourService = svc.port]

\* what the close and error handlers of an authenticated socket do to the
\* advertisement: stopAdvertising unless isStopping
OnAuthenticatedLoss(svc) ==
  IF ~svc.isStopping THEN StopAdvertising(svc) ELSE svc

\* a code check that accepts every code
CodeMatchesAny(svc, code) == TRUE

\* the code check of authHandler
CodeMatches(svc, code) == code = svc.connectionCode

IdleSession ==
  /\ snd = NewService
  /\ listeners = {}
  /\ starts = 0
  /\ sock = [s \in Socks |-> "none"]
  /\ isAuthenticated = [s \in Socks |-> FALSE]
  /\ authTimeout = [s \in Socks |-> FALSE]
  /\ toSender = [s \in Socks |-> <<>>]
  /\ toReceiver = [s \in Socks |-> <<>>]
  /\ rsock = [s \in Socks |-> "none"]
  /\ promise = [s \in Socks |-> "none"]
  /\ verdict = [s \in Socks |-> "none"]
  /\ rclient = [s \in Socks |-> FALSE]
  /\ sendLog = <<>>

\* socket.destroy(): an open socket is destroyed, its close event follows
Destroy(socks, s) ==
  IF s # NULL /\ socks[s] = "open" THEN [socks EXCEPT ![s] = "destroyed"]
  ELSE socks

\* startSender, with the listen callback (emitted on the next tick, before
\* any other event): a new server on a new port, a new code, advertise
StartSender(code) ==
  /\ starts < MaxStarts
  /\ starts' = starts + 1
  /\ listeners' = listeners \cup {starts + 1}
  /\ snd' = StartAdvertising([snd EXCEPT !.isStopping = FALSE,
                                         !.connectionCode = code,
                                         !.server = starts + 1,
                                         !.port = starts + 1])
  /\ UNCHANGED <<sock, isAuthenticated, authTimeout, toSender, toReceiver,
                 rsock, promise, verdict>>
  /\ UNCHANGED <<rclient, sendLog>>
  /\ UNCHANGED notSession

\* stopSender
StopSender ==
  /\ sock' = Destroy(sock, snd.client)
  /\ listeners' = listeners \ {snd.server}
  /\ snd' = [StopAdvertising([snd EXCEPT !.isStopping = TRUE, !.client = NULL])
               EXCEPT !.server = NULL]
  /\ UNCHANGED <<starts, isAuthenticated, authTimeout, toSender, toReceiver,
                 rsock, promise, verdict>>
  /\ UNCHANGED <<rclient, sendLog>>
  /\ UNCHANGED notSession

\* connectToSender(ip, p, code, dir) of the receiver of connection s: its
\* this.client is the new socket.  With a
\* listener on p: the sender's connection handler runs (arms authTimeout) and
\* the receiver's connect callback writes the auth record.  Without one: the
\* error handler rejects, and the socket closes.
ConnectToSender(s, p, code) ==
  /\ rsock[s] = "none"
  /\ IF p \in listeners
     THEN /\ rsock' = [rsock EXCEPT ![s] = "open"]
          /\ promise' = [promise EXCEPT ![s] = "pending"]
          /\ sock' = [sock EXCEPT ![s] = "open"]
          /\ authTimeout' = [authTimeout EXCEPT ![s] = TRUE]
          /\ toSender' = [toSender EXCEPT ![s] = <<[type |-> "auth", code |-> code]>>]
     ELSE /\ rsock' = [rsock EXCEPT ![s] = "closed"]
          /\ promise' = [promise EXCEPT ![s] = "rejected: connect"]
          /\ UNCHANGED <<sock, authTimeout, toSender>>
  /\ rclient' = [rclient EXCEPT ![s] = TRUE]
  /\ UNCHANGED <<snd, listeners, starts, isAuthenticated, toReceiver, verdict,
                 sendLog>>
  /\ UNCHANGED notSession

\* authHandler on a data event carrying one record
AuthHandler(s) ==
  /\ sock[s] = "open"
  /\ ~isAuthenticated[s]
  /\ toSender[s] # <<>>
  /\ LET json == Head(toSender[s])
     IN /\ toSender' = [toSender EXCEPT ![s] = Tail(@)]
        /\ IF json.type = "auth"
           THEN /\ authTimeout' = [authTimeout EXCEPT ![s] = FALSE]
                /\ verdict' = [verdict EXCEPT ![s] = IF json.code = snd.connectionCode
                                                       THEN "match" ELSE "mismatch"]
                /\ IF CodeMatches(snd, json.code)
                   THEN /\ isAuthenticated' = [isAuthenticated EXCEPT ![s] = TRUE]
                        /\ snd' = StopAdvertising([snd EXCEPT !.client = s])
                        /\ toReceiver' = [toReceiver EXCEPT
                                            ![s] = Append(@, [type |-> "auth-success"])]
                        /\ UNCHANGED sock
                   ELSE /\ toReceiver' = [toReceiver EXCEPT
                                            ![s] = Append(@, [type |-> "error"])]
                        /\ sock' = Destroy(sock, s)
                        /\ UNCHANGED <<snd, isAuthenticated>>
           ELSE UNCHANGED <<authTimeout, verdict, isAuthenticated, snd,
                            toReceiver, sock>>
  /\ UNCHANGED <<listeners, starts, rsock, promise>>
  /\ UNCHANGED <<rclient, sendLog>>
  /\ UNCHANGED notSession

\* an authentication timer that expires without destroying the socket
AuthTimeoutSpares(s) ==
  /\ authTimeout[s]
  /\ authTimeout' = [authTimeout EXCEPT ![s] = FALSE]
  /\ UNCHANGED <<snd, listeners, starts, sock, isAuthenticated, toSender,
                 toReceiver, rsock, promise, verdict>>
  /\ UNCHANGED <<rclient, sendLog>>
  /\ UNCHANGED notSession

\* the 10 s authentication timer fires
AuthTimeoutFires(s) ==
  /\ authTimeout[s]
  /\ authTimeout' = [authTimeout EXCEPT ![s] = FALSE]
  /\ sock' = IF ~isAuthenticated[s] THEN Destroy(sock, s) ELSE sock
  /\ UNCHANGED <<snd, listeners, starts, isAuthenticated, toSender, toReceiver,
                 rsock, promise, verdict>>
  /\ UNCHANGED <<rclient, sendLog>>
  /\ UNCHANGED notSession

\* the sender socket's error handler: the peer reset the connection
SenderSocketError(s) ==
  /\ sock[s] = "open"
  /\ rsock[s] = "closed"
  /\ authTimeout' = [authTimeout EXCEPT ![s] = FALSE]
  /\ snd' = IF isAuthenticated[s] THEN OnAuthenticatedLoss(snd) ELSE snd
  /\ sock' = [sock EXCEPT ![s] = "errored"]
  /\ UNCHANGED <<listeners, starts, isAuthenticated, toSender, toReceiver,
                 rsock, promise, verdict>>
  /\ UNCHANGED <<rclient, sendLog>>
  /\ UNCHANGED notSession

\* the sender socket's close handler
SenderSocketClose(s) ==
  /\ \/ sock[s] \in {"destroyed", "errored"}
     \/ sock[s] = "open" /\ rsock[s] = "closed"
  /\ authTimeout' = [authTimeout EXCEPT ![s] = FALSE]
  /\ snd' = [(IF isAuthenticated[s] THEN OnAuthenticatedLoss(snd) ELSE snd)
               EXCEPT !.client = NULL]
  /\ sock' = [sock EXCEPT ![s] = "closed"]
  /\ UNCHANGED <<listeners, starts, isAuthenticated, toSender, toReceiver,
                 rsock, promise, verdict>>
  /\ UNCHANGED <<rclient, sendLog>>
  /\ UNCHANGED notSession

SenderGone(s) == sock[s] \in {"destroyed", "errored", "closed"}

\* the receiver's data handler on a handshake reply (isResolved is
\* promise[s] # "pending")
ReceiverReply(s) ==
  /\ rsock[s] = "open"
  /\ toReceiver[s] # <<>>
  /\ toReceiver' = [toReceiver EXCEPT ![s] = Tail(@)]
  /\ LET json == Head(toReceiver[s])
     IN IF json.type = "error"
        THEN /\ rsock' = [rsock EXCEPT ![s] = "closed"]
             /\ promise' = IF promise[s] = "pending"
                           THEN [promise EXCEPT ![s] = "rejected: Invalid connection code"]
                           ELSE promise
        ELSE IF json.type = "auth-success" /\ promise[s] = "pending"
        THEN /\ promise' = [promise EXCEPT ![s] = "resolved"]
             /\ UNCHANGED rsock
        ELSE UNCHANGED <<rsock, promise>>
  /\ UNCHANGED <<snd, listeners, starts, sock, isAuthenticated, authTimeout,
                 toSender, verdict>>
  /\ UNCHANGED <<rclient, sendLog>>
  /\ UNCHANGED notSession

\* the receiver's error handler: the sender reset the connection (it
\* destroyed the socket with the receiver's data unread)
ReceiverSocketError(s) ==
  /\ rsock[s] = "open"
  /\ SenderGone(s) /\ toSender[s] # <<>> /\ toReceiver[s] = <<>>
  /\ rsock' = [rsock EXCEPT ![s] = "closed"]
  /\ promise' = IF promise[s] = "pending"
                THEN [promise EXCEPT ![s] = "rejected: reset"]
                ELSE promise
  /\ UNCHANGED <<snd, listeners, starts, sock, isAuthenticated, authTimeout,
                 toSender, toReceiver, verdict>>
  /\ UNCHANGED <<rclient, sendLog>>
  /\ UNCHANGED notSession

\* the receiver's close handler (events only): the sender closed the connection
ReceiverSocketClose(s) ==
  /\ rsock[s] = "open"
  /\ SenderGone(s) /\ toReceiver[s] = <<>>
  /\ rsock' = [rsock EXCEPT ![s] = "closed"]
  /\ UNCHANGED <<snd, listeners, starts, sock, isAuthenticated, authTimeout,
                 toSender, toReceiver, promise, verdict>>
  /\ UNCHANGED <<rclient, sendLog>>
  /\ UNCHANGED notSession

\* disconnectReceiver of the receiver of connection s: if (this.client)
\* destroy it and set it to null
DisconnectReceiver(s) ==
  /\ rclient[s]
  /\ rclient' = [rclient EXCEPT ![s] = FALSE]
  /\ rsock' = IF rsock[s] = "open" THEN [rsock EXCEPT ![s] = "closed"] ELSE rsock
  /\ UNCHANGED <<snd, listeners, starts, sock, isAuthenticated, authTimeout,
                 toSender, toReceiver, promise, verdict, sendLog>>
  /\ UNCHANGED notSession


(***************************************************************************)
(* SpecDiscover: discoverServices.  The Bonjour browser announces a        *)
(* service name it does not hold with 'up' and drops one it holds with     *)
(* 'down'; the call collects them until its 3 s timer stops the browser.   *)
(***************************************************************************)
PeerNames == {"hostA", "hostB", "hostC"}
PeerPorts == {1, 2}

IdleDiscovery ==
  /\ localTransferService = TRUE      \* setupIPCHandlers has run
  /\ browser = "none"
  /\ services = <<>>
  /\ discovered = <<>>
  /\ upAt = [n \in PeerNames |-> 0]
  /\ tick = 0

\* the entry pushed for a service: hostname is service.txt?.hostname ||
\* service.name (txtHostname "" when the record carries none)
DiscoveredService(name, port, txtHostname) ==
  [ name |-> name, port |-> port,
    hostname |-> IF txtHostname # "" THEN txtHostname ELSE name ]

\* the 'up' handler: services.push(...)
OnUp(list, service) == Append(list, service)

\* services.findIndex((s) => s.name === name), from 1; 0 for -1
FindIndex(list, name) ==
  IF \E i \in 1..Len(list) : list[i].name = name
  THEN CHOOSE i \in 1..Len(list) :
         /\ list[i].name = name
         /\ \A j \in 1..(i - 1) : list[j].name # name
  ELSE 0

\* a 'down' handler that drops the last entry
OnDownLast(list, name) ==
  IF list # <<>> THEN SubSeq(list, 1, Len(list) - 1) ELSE list

\* the 'down' handler: splice(index, 1) when the name is found
OnDown(list, name) ==
  LET index == FindIndex(list, name)
  IN IF index # 0
     THEN SubSeq(list, 1, index - 1) \o SubSeq(list, index + 1, Len(list))
     ELSE list

\* discoverServices(): a new array and a new browser
DiscoverServices ==
  /\ browser \in {"none", "stopped"}
  /\ tick < MaxEvents
  /\ browser' = "browsing"
  /\ services' = <<>>
  /\ discovered' = <<>>
  /\ upAt' = [n \in PeerNames |-> 0]
  /\ UNCHANGED tick
  /\ UNCHANGED <<nameVars, sessVars, xferVars, localTransferService, tp, remoteVars>>

\* the browser emits 'up' for a service it did not hold
BrowserUp(name, port, txtHostname) ==
  /\ browser = "browsing"
  /\ tick < MaxEvents
  /\ upAt[name] = 0
  /\ services' = OnUp(services, DiscoveredService(name, port, txtHostname))
  /\ upAt' = [upAt EXCEPT ![name] = tick + 1]
  /\ tick' = tick + 1
  /\ UNCHANGED <<browser, discovered>>
  /\ UNCHANGED <<nameVars, sessVars, xferVars, localTransferService, tp, remoteVars>>

\* the browser emits 'down' for a service it held
BrowserDown(name) ==
  /\ browser = "browsing"
  /\ tick < MaxEvents
  /\ upAt[name] # 0
  /\ services' = OnDown(services, name)
  /\ upAt' = [upAt EXCEPT ![name] = 0]
  /\ tick' = tick + 1
  /\ UNCHANGED <<browser, discovered>>
  /\ UNCHANGED <<nameVars, sessVars, xferVars, localTransferService, tp, remoteVars>>

\* the 3 s timer: browser.stop(); resolve(services)
WindowElapses ==
  /\ browser = "browsing"
  /\ browser' = "stopped"
  /\ discovered' = services
  /\ UNCHANGED <<services, upAt, tick>>
  /\ UNCHANGED <<nameVars, sessVars, xferVars, localTransferService, tp, remoteVars>>

(***************************************************************************)
(* The wire.  A stream is a sequence of units; a unit is a byte, or a run  *)
(* of bytes the model does not divide: the text of a JSON record up to its *)
(* closing brace (it carries the record's type and data), and the closing  *)
(* brace.  A data event delivers any number of units.  The id and path of  *)
(* a record's data name the file it was written for; no code reads them.   *)
(***************************************************************************)
Byte(v) == [k |-> "byte", v |-> v, d |-> NoData]
JsonOpen(type, data) == [k |-> "json", v |-> type, d |-> data]
JsonClose == [k |-> "close", v |-> "}", d |-> NoData]

Zero == Byte("00")       \* 0x00
LF == Byte("LF")         \* "\n"

\* JSON.stringify(record)
Stringify(type, data) == <<JsonOpen(type, data), JsonClose>>

\* messageDelimiter = '\x00\x00\x00\x00'
MessageDelimiter == <<Zero, Zero, Zero, Zero>>

\* Buffer.from(JSON.stringify(record) + this.messageDelimiter)
Frame(type, data) == Stringify(type, data) \o MessageDelimiter

Min(a, b) == IF a < b THEN a ELSE b

Drop(s, n) == SubSeq(s, n + 1, Len(s))

\* buffer.indexOf(delimiterBuffer), 1-based; 0 when it is not there
IndexOfDelimiter(buf) ==
  LET n == Len(MessageDelimiter)
      hits == {i \in 1..(Len(buf) - n + 1) : SubSeq(buf, i, i + n - 1) = MessageDelimiter}
  IN IF hits = {} THEN 0 ELSE CHOOSE i \in hits : \A j \in hits : i <= j

IsSpace(u) == u = LF

RECURSIVE TrimLeft(_)
TrimLeft(s) == IF s # <<>> /\ IsSpace(Head(s)) THEN TrimLeft(Tail(s)) ELSE s

RECURSIVE TrimRight(_)
TrimRight(s) ==
  IF s # <<>> /\ IsSpace(s[Len(s)]) THEN TrimRight(SubSeq(s, 1, Len(s) - 1)) ELSE s

\* JSON.parse(text): a record when the text, white space aside, is one JSON
\* text; ok = FALSE when it throws
JsonParse(text) ==
  LET s == TrimRight(TrimLeft(text))
  IN IF Len(s) = 2 /\ s[1].k = "json" /\ s[2].k = "close"
     THEN [ok |-> TRUE, type |-> s[1].v, data |-> s[1].d]
     ELSE [ok |-> FALSE, type |-> "", data |-> NoData]

\* message.split('\n')
RECURSIVE SplitLines(_)
SplitLines(s) ==
  LET nl == {i \in 1..Len(s) : s[i] = LF}
  IN IF nl = {} THEN <<s>>
     ELSE LET i == CHOOSE x \in nl : \A y \in nl : x <= y
          IN <<SubSeq(s, 1, i - 1)>> \o SplitLines(Drop(s, i))

\* the loop over the lines in connectToSender's data handler: the first line
\* that is an error record, or an auth-success record while the promise is
\* not settled; "none" when the loop ends without one
RECURSIVE FirstReply(_, _)
FirstReply(lines, isResolved) ==
  IF lines = <<>> THEN "none"
  ELSE LET json == JsonParse(Head(lines))
       IN IF TrimLeft(Head(lines)) = <<>> \/ ~json.ok
          THEN FirstReply(Tail(lines), isResolved)
          ELSE IF json.type = "error" THEN "error"
          ELSE IF json.type = "auth-success" /\ ~isResolved THEN "auth-success"
          ELSE FirstReply(Tail(lines), isResolved)

(***************************************************************************)
(* processDataBuffer and saveReceivedFile.  They run on a record m:        *)
(*   svc      the service's fields                                         *)
(*   out      what the call wrote to this.client                           *)
(*   log      the files written, the file-saved frames sent and what was   *)
(*            only logged, so far                                          *)
(*   fired    the fileSavedResolver the call invoked (NULL: none)          *)
(*   firedBy  the file whose file-saved frame invoked it                   *)
(*   writeOk  whether writeFileSync succeeds;  failed: one has thrown      *)
(***************************************************************************)
\* the names in the save directory: those of the files written
DirectoryNames(log) == {log[i].name : i \in {j \in 1..Len(log) : log[j].ev = "written"}}

\* the data of a record that has none, marked with the file it is about
About(id) == [NoData EXCEPT !.id = id]

\* a read that takes all the bytes available
BytesToReadAll(remainingBytes, available) == available

\* bytesToRead = Math.min(remainingBytes, this.dataBuffer.length)
BytesToRead(remainingBytes, available) == Min(remainingBytes, available)

\* an entry of the log for what the receive loop only logs: a frame that
\* is not a record ("malformed"), a record of a type it does not expect
\* ("unexpected"), a write to the save directory that threw ("write-failed")
Noted(m, ev) ==
  [m EXCEPT !.log = Append(@, [ ev |-> ev, id |-> m.svc.currentFileMetadata.id,
                                path |-> m.svc.currentFileMetadata.path,
                                name |-> <<>>, size |-> 0, bytes |-> <<>>,
                                endId |-> 0 ])]

\* a test that takes a file for complete only when it has bytes
FileCompleteNonEmpty(receivedBytes, fileSize) ==
  receivedBytes = fileSize /\ fileSize > 0

\* this.receivedBytes === this.currentFileMetadata.fileSize
FileComplete(receivedBytes, fileSize) == receivedBytes = fileSize

\* saveReceivedFile; endId names the file whose file-end frame led here
SaveReceivedFile(m, endId) ==
  LET meta == m.svc.currentFileMetadata
      uniqueFileName == GetUniqueFileName(meta.fileName, DirectoryNames(m.log))
      written == [ ev |-> "written", id |-> meta.id, path |-> meta.path,
                   name |-> uniqueFileName, size |-> meta.fileSize,
                   bytes |-> m.svc.receivingBuffer, endId |-> endId ]
      ack == [written EXCEPT !.ev = "file-saved"]
      hasClient == m.svc.client # NULL
  IN IF meta = NoData THEN m
     ELSE IF ~m.writeOk THEN Noted([m EXCEPT !.failed = TRUE], "write-failed")
     ELSE [m EXCEPT
             !.log = IF hasClient THEN @ \o <<written, ack>> ELSE Append(@, written),
             !.out = IF hasClient THEN @ \o Frame("file-saved", About(meta.id)) ELSE @,
             !.svc = [@ EXCEPT !.isReceiving = FALSE,
                               !.currentFileMetadata = NoData,
                               !.receivingBuffer = <<>>,
                               !.receivedBytes = 0]]

RECURSIVE ProcessDataBuffer(_)
ProcessDataBuffer(m) ==
  LET svc == m.svc
      buf == svc.dataBuffer
      meta == svc.currentFileMetadata
      delimiterIndex == IndexOfDelimiter(buf)
      json == JsonParse(SubSeq(buf, 1, delimiterIndex - 1))
      rest == Drop(buf, delimiterIndex + Len(MessageDelimiter) - 1)
      taken == [m EXCEPT !.svc.dataBuffer = rest]
  IN IF svc.isReceiving /\ meta # NoData
     THEN IF FileComplete(svc.receivedBytes, meta.fileSize)
          THEN \* the file is complete: look for the file-end marker
               IF delimiterIndex = 0 THEN m
               ELSE IF ~json.ok THEN Noted(taken, "malformed")
               ELSE IF json.type = "file-end"
               THEN ProcessDataBuffer(SaveReceivedFile(taken, json.data.id))
               ELSE Noted(taken, "unexpected")
          ELSE \* read more of the file
               LET bytesToRead == BytesToRead(meta.fileSize - svc.receivedBytes, Len(buf))
               IN IF bytesToRead > 0
                  THEN ProcessDataBuffer(
                         [m EXCEPT !.svc.receivingBuffer = @ \o SubSeq(buf, 1, bytesToRead),
                                   !.svc.receivedBytes = @ + bytesToRead,
                                   !.svc.dataBuffer = Drop(buf, bytesToRead)])
                  ELSE m
     ELSE \* look for a control message
          IF delimiterIndex = 0 THEN m
          ELSE IF ~json.ok THEN Noted(taken, "malformed")
          ELSE IF json.type = "metadata"
          THEN ProcessDataBuffer(
                 [taken EXCEPT !.svc.currentFileMetadata = json.data,
                               !.svc.receivingBuffer = <<>>,
                               !.svc.receivedBytes = 0,
                               !.svc.isReceiving = TRUE])
          ELSE IF json.type = "file-saved"
          THEN ProcessDataBuffer(
                 IF svc.fileSavedResolver # NULL
                 THEN [taken EXCEPT !.svc.fileSavedResolver = NULL,
                                    !.fired = svc.fileSavedResolver,
                                    !.firedBy = json.data.id]
                 ELSE taken)
          ELSE ProcessDataBuffer(Noted(taken, "unexpected"))

\* the record processDataBuffer starts from, after data was appended
Machine(svc, data, log, writeOk, failed) ==
  [ svc |-> [svc EXCEPT !.dataBuffer = @ \o data], out |-> <<>>, log |-> log,
    fired |-> NULL, firedBy |-> NULL, writeOk |-> writeOk, failed |-> failed ]

(***************************************************************************)
(* A transfer.  Connection 1 is open and authenticated: the sender's       *)
(* this.client is its socket, and so is the receiver's.                    *)
(***************************************************************************)
Conn == 1
Paths == 1..MaxPaths

\* path.basename(filePath) of the sender's files: "f1.t", "f2.t", ...
PathBaseName(p) == <<"f">> \o ToDecimal(p) \o <<".", "t">>

\* what a file of the sender can hold: nothing, one byte, more bytes than a
\* read returns, the message delimiter, a line that is an error record
FileContents ==
  { <<>>,
    <<Byte("x")>>,
    <<Byte("x"), Byte("y"), Byte("x")>>,
    MessageDelimiter,
    Stringify("error", NoData) }

\* no other sendFiles call in progress
NoOther == [phase |-> "none"]

\* no sendFiles call
NoCall ==
  [ phase |-> "idle", paths |-> <<>>, i |-> 0, pos |-> 0, id |-> 0,
    ended |-> <<>>, result |-> "none", completes |-> 0, other |-> NoOther ]

IdleTransfer ==
  /\ rcv = NewService
  /\ srcFiles = [p \in Paths |-> <<>>]
  /\ wire = <<>>
  /\ back = <<>>
  /\ sf = NoCall
  /\ calls = 0
  /\ fileSeq = 0
  /\ rcvLog = <<>>
  /\ writeFailed = FALSE
  /\ misread = FALSE

\* the lengths of the prefixes of a stream that end with a frame: the
\* receiver writes a frame at a time, and so it arrives
FrameEnds(stream) ==
  {n \in 1..Len(stream) :
     /\ n >= Len(MessageDelimiter)
     /\ SubSeq(stream, n - Len(MessageDelimiter) + 1, n) = MessageDelimiter}

\* filePaths of a sendFiles call that can send n files
PathLists(n) == UNION {[1..k -> Paths] : k \in 1..n}

\* this.client?.write(data) of the sender: the bytes reach the receiver's
\* socket while it is open
SenderWrite(w, data) ==
  IF snd.client # NULL /\ rsock[Conn] = "open" THEN w \o data ELSE w

\* the metadata frame of sendFile(filePath, currentFile, totalFiles)
MetadataFrame(p, currentFile, totalFiles, id) ==
  Frame("metadata", [ fileName |-> PathBaseName(p),
                      fileSize |-> Len(srcFiles[p]),
                      currentFile |-> currentFile,
                      totalFiles |-> totalFiles,
                      id |-> id, path |-> p ])

\* a sendFile that writes the metadata frame before it stats the path
SendFileMetadataFirst(w, p, currentFile, totalFiles, id, statOk) ==
  SenderWrite(w, MetadataFrame(p, currentFile, totalFiles, id))

\* the socket after the synchronous part of sendFile: fs.statSync(filePath),
\* which throws when statOk is false, then the write of the metadata frame
SendFile(w, p, currentFile, totalFiles, id, statOk) ==
  IF statOk THEN SenderWrite(w, MetadataFrame(p, currentFile, totalFiles, id)) ELSE w

\* sendFile resolved (how: by a file-saved frame of this file, by one of an
\* earlier file, or by the 30 s timer): the loop of sendFiles goes on to the
\* next file, whose sendFile writes its metadata frame or, when its stat
\* fails (statOk false), rejects and sendFiles with it; or sendFiles returns
SendFileResolved(how, statOk) ==
  LET ended == Append(sf.ended, how)
  IN IF sf.i < Len(sf.paths)
     THEN /\ sf' = IF statOk
                   THEN [sf EXCEPT !.ended = ended, !.i = @ + 1, !.pos = 0,
                                   !.id = fileSeq + 1, !.phase = "reading"]
                   ELSE [sf EXCEPT !.ended = ended, !.phase = "idle",
                                   !.result = "rejected: stat"]
          /\ fileSeq' = IF statOk THEN fileSeq + 1 ELSE fileSeq
          /\ wire' = SendFile(wire, sf.paths[sf.i + 1], sf.i + 1, Len(sf.paths),
                              fileSeq + 1, statOk)
     ELSE \* the loop is over: transfer-complete is sent to the window
          /\ statOk
          /\ sf' = [sf EXCEPT !.ended = ended, !.phase = "idle",
                              !.result = "resolved", !.completes = @ + 1]
          /\ UNCHANGED <<fileSeq, wire>>

sessRest == <<listeners, starts, sock, isAuthenticated, authTimeout, toSender,
              toReceiver, promise, verdict, rclient, sendLog>>

\* sendFiles(filePaths), up to the first file's metadata frame; statOk:
\* whether the stat of the first path succeeds
SendFiles(filePaths, statOk) ==
  /\ sf.phase = "idle"
  /\ calls < MaxCalls
  /\ calls' = calls + 1
  /\ IF snd.client = NULL
     THEN /\ statOk
          /\ sf' = [NoCall EXCEPT !.result = "rejected: No receiver connected"]
          /\ UNCHANGED <<wire, fileSeq>>
     ELSE /\ sf' = IF statOk
                   THEN [ phase |-> "reading", paths |-> filePaths, i |-> 1,
                          pos |-> 0, id |-> fileSeq + 1, ended |-> <<>>,
                          result |-> "pending", completes |-> 0,
                          other |-> NoOther ]
                   ELSE [NoCall EXCEPT !.paths = filePaths,
                                       !.result = "rejected: stat"]
          /\ fileSeq' = IF statOk THEN fileSeq + 1 ELSE fileSeq
          /\ wire' = SendFile(wire, filePaths[1], 1, Len(filePaths), fileSeq + 1,
                              statOk)
  /\ UNCHANGED <<snd, rsock, sessRest, nameVars, moreVars>>
  /\ UNCHANGED <<rcv, srcFiles, back, rcvLog, writeFailed, misread>>

\* sendFiles(filePaths) while a sendFiles call is in progress: the method
\* has no test for that.  sf is the call whose callbacks the actions
\* describe, sf.other the other call in progress (NoOther: none).  Without a
\* receiver, or when the stat of the first path fails, the new call rejects.
SendFilesAgain(filePaths, statOk) ==
  /\ sf.phase # "idle"
  /\ sf.other = NoOther
  /\ calls < MaxCalls
  /\ calls' = calls + 1
  /\ IF snd.client # NULL /\ statOk
     THEN /\ sf' = [ phase |-> "reading", paths |-> filePaths, i |-> 1,
                     pos |-> 0, id |-> fileSeq + 1, ended |-> <<>>,
                     result |-> "pending", completes |-> 0, other |-> sf ]
          /\ fileSeq' = fileSeq + 1
          /\ wire' = SendFile(wire, filePaths[1], 1, Len(filePaths), fileSeq + 1,
                              statOk)
     ELSE UNCHANGED <<sf, fileSeq, wire>>
  /\ UNCHANGED <<snd, rsock, sessRest, nameVars, moreVars>>
  /\ UNCHANGED <<rcv, srcFiles, back, rcvLog, writeFailed, misread>>

\* the event loop turns to the callbacks of the other call in progress
OtherCallRuns ==
  /\ sf.other # NoOther
  /\ sf' = [sf.other EXCEPT !.other = [sf EXCEPT !.other = NoOther]]
  /\ UNCHANGED <<snd, rsock, sessRest, nameVars, moreVars>>
  /\ UNCHANGED <<rcv, srcFiles, wire, back, calls, fileSeq, rcvLog, writeFailed,
                 misread>>

\* readStream 'data': the next block of the file is written to the socket.
\* canContinue is what the write returns on a socket (whether its buffer is
\* below the high-water mark); without a socket this.client?.write is
\* undefined.  When it is not true the stream is paused: until the socket's
\* 'drain' ("paused"), or for good when there is no socket to listen on
\* ("stalled").
ReadData(canContinue) ==
  /\ sf.phase = "reading"
  /\ sf.pos < Len(srcFiles[sf.paths[sf.i]])
  /\ LET content == srcFiles[sf.paths[sf.i]]
         n == Min(BlockUnits, Len(content) - sf.pos)
     IN /\ wire' = SenderWrite(wire, SubSeq(content, sf.pos + 1, sf.pos + n))
        /\ sf' = [sf EXCEPT !.pos = @ + n,
                            !.phase = IF snd.client = NULL THEN "stalled"
                                      ELSE IF canContinue THEN "reading"
                                      ELSE "paused"]
  /\ UNCHANGED <<snd, rsock, sessRest, nameVars, moreVars>>
  /\ UNCHANGED <<rcv, srcFiles, back, calls, fileSeq, rcvLog, writeFailed, misread>>

\* the socket's 'drain': the stream is resumed
Drain ==
  /\ sf.phase = "paused"
  /\ sock[Conn] = "open" /\ rsock[Conn] = "open"
  /\ sf' = [sf EXCEPT !.phase = "reading"]
  /\ UNCHANGED <<snd, rsock, sessRest, nameVars, moreVars>>
  /\ UNCHANGED <<rcv, srcFiles, wire, back, calls, fileSeq, rcvLog, writeFailed,
                 misread>>

\* readStream 'end': the 100 ms timer is set
ReadEnd ==
  /\ sf.phase = "reading"
  /\ sf.pos = Len(srcFiles[sf.paths[sf.i]])
  /\ sf' = [sf EXCEPT !.phase = "ended"]
  /\ UNCHANGED <<snd, rsock, sessRest, nameVars, moreVars>>
  /\ UNCHANGED <<rcv, srcFiles, wire, back, calls, fileSeq, rcvLog, writeFailed,
                 misread>>

\* readStream 'error': sendFile rejects, and sendFiles with it
ReadError ==
  /\ sf.phase = "reading"
  /\ sf' = [sf EXCEPT !.phase = "idle", !.result = "rejected: read"]
  /\ UNCHANGED <<snd, rsock, sessRest, nameVars, moreVars>>
  /\ UNCHANGED <<rcv, srcFiles, wire, back, calls, fileSeq, rcvLog, writeFailed,
                 misread>>

\* the 100 ms timer: the file-end frame is written and the wait for the
\* acknowledgement begins (fileSavedResolver = resolveAck of this file)
EndMarkerTimer ==
  /\ sf.phase = "ended"
  /\ wire' = SenderWrite(wire, Frame("file-end", About(sf.id)))
  /\ snd' = [snd EXCEPT !.fileSavedResolver = sf.id]
  /\ sf' = [sf EXCEPT !.phase = "waiting"]
  /\ UNCHANGED <<rsock, sessRest, nameVars, moreVars>>
  /\ UNCHANGED <<rcv, srcFiles, back, calls, fileSeq, rcvLog, writeFailed, misread>>

\* the 30 s timer of the file being waited for
AckTimeoutFires(statOk) ==
  /\ sf.phase = "waiting"
  /\ snd.fileSavedResolver = sf.id
  /\ snd' = [snd EXCEPT !.fileSavedResolver = NULL]
  /\ SendFileResolved("timeout", statOk)
  /\ UNCHANGED <<rsock, sessRest, nameVars, moreVars>>
  /\ UNCHANGED <<rcv, srcFiles, back, calls, rcvLog, writeFailed, misread>>

\* the sender's data handler on n units from the receiver (whole frames),
\* and what the resolver it invokes leads to
SenderData(n, statOk) ==
  /\ sock[Conn] = "open"
  /\ n \in FrameEnds(back)
  /\ back' = Drop(back, n)
  /\ LET m == ProcessDataBuffer(Machine(snd, SubSeq(back, 1, n), <<>>, TRUE, FALSE))
     IN /\ snd' = m.svc
        /\ IF m.fired # NULL
           THEN SendFileResolved(IF m.firedBy = m.fired THEN "file-saved"
                                 ELSE "file-saved of an earlier file", statOk)
           ELSE statOk /\ UNCHANGED <<sf, fileSeq, wire>>
  /\ UNCHANGED <<rsock, sessRest, nameVars, moreVars>>
  /\ UNCHANGED <<rcv, srcFiles, calls, rcvLog, writeFailed, misread>>

\* the receiver's data handler (connectToSender) on n units from the sender;
\* writeOk: whether a writeFileSync in it succeeds
ReceiverData(n, writeOk) ==
  /\ rsock[Conn] = "open"
  /\ n \in 1..Len(wire)
  /\ LET data == SubSeq(wire, 1, n)
         reply == FirstReply(SplitLines(data), promise[Conn] # "pending")
         m == ProcessDataBuffer(Machine(rcv, data, rcvLog, writeOk, writeFailed))
     IN IF reply = "error"
        THEN \* this.client.destroy(); return
             /\ rsock' = [rsock EXCEPT ![Conn] = "closed"]
             /\ wire' = <<>>
             /\ misread' = (misread \/ (rcv.isReceiving /\ rcv.currentFileMetadata # NoData
                              /\ rcv.receivedBytes < rcv.currentFileMetadata.fileSize))
             /\ UNCHANGED <<rcv, back, rcvLog, writeFailed>>
        ELSE /\ wire' = Drop(wire, n)
             /\ rcv' = m.svc
             /\ back' = IF sock[Conn] = "open" THEN back \o m.out ELSE back
             /\ rcvLog' = m.log
             /\ writeFailed' = m.failed
             /\ UNCHANGED <<rsock, misread>>
  /\ UNCHANGED <<snd, sessRest, nameVars, moreVars>>
  /\ UNCHANGED <<srcFiles, sf, calls, fileSeq>>

\* whether a data event of n units can call saveReceivedFile: a file-end
\* record is in what the receiver then holds
MaySave(n) ==
  \E u \in {rcv.dataBuffer[i] : i \in 1..Len(rcv.dataBuffer)}
            \cup {wire[i] : i \in 1..n} : u.k = "json" /\ u.v = "file-end"

\* the outcomes of writeFileSync in a data event of n units
WriteOutcomes(n) == IF MaySave(n) THEN BOOLEAN ELSE {TRUE}

\* disconnectReceiver during the transfer: the receiver destroys its socket
\* and forgets it; what it had not read is lost
ReceiverDisconnect ==
  /\ rclient[Conn]
  /\ rclient' = [rclient EXCEPT ![Conn] = FALSE]
  /\ rsock' = IF rsock[Conn] = "open" THEN [rsock EXCEPT ![Conn] = "closed"] ELSE rsock
  /\ rcv' = [rcv EXCEPT !.client = NULL]
  /\ wire' = <<>>
  /\ UNCHANGED <<snd, listeners, starts, sock, isAuthenticated, authTimeout,
                 toSender, toReceiver, promise, verdict, sendLog, nameVars, moreVars>>
  /\ UNCHANGED <<srcFiles, back, sf, calls, fileSeq, rcvLog, writeFailed, misread>>

(***************************************************************************)
(* The handshake on connection 1, byte by byte.  The receiver's connect    *)
(* callback has written the auth record; the transport delivers it to the  *)
(* sender's authHandler, and the sender's reply and what it writes after   *)
(* it to the receiver's data handler, in data events of any length.        *)
(***************************************************************************)
\* the data of { type: 'auth', code }
AuthData(code) ==
  [ fileName |-> <<>>, fileSize |-> 0, currentFile |-> 0, totalFiles |-> 0,
    id |-> 0, path |-> 0, code |-> code ]

\* JSON.stringify({ type: 'auth', code }) + '\n'
AuthRecord(code) == Stringify("auth", AuthData(code)) \o <<LF>>

\* JSON.stringify({ type: 'auth-success' }) + '\n'
AuthSuccessReply == Stringify("auth-success", NoData) \o <<LF>>

\* JSON.stringify({ type: 'error', message }) + '\n'
ErrorReply == Stringify("error", NoData) \o <<LF>>

\* the loop over the lines in authHandler: the first line that parses as a
\* record of type auth
RECURSIVE FirstAuth(_)
FirstAuth(lines) ==
  IF lines = <<>> THEN [found |-> FALSE, code |-> ""]
  ELSE LET json == JsonParse(Head(lines))
       IN IF Head(lines) # <<>> /\ json.ok /\ json.type = "auth"
          THEN [found |-> TRUE, code |-> json.data.code]
          ELSE FirstAuth(Tail(lines))

\* authHandler on a data event of n units
AuthHandlerData(n) ==
  /\ sock[Conn] = "open"
  /\ ~isAuthenticated[Conn]
  /\ n \in 1..Len(back)
  /\ back' = Drop(back, n)
  /\ LET data == SubSeq(back, 1, n)
         message == TrimRight(TrimLeft(data))
         auth == FirstAuth(SplitLines(message))
     IN IF auth.found
        THEN /\ authTimeout' = [authTimeout EXCEPT ![Conn] = FALSE]
             /\ verdict' = [verdict EXCEPT ![Conn] =
                              IF auth.code = snd.connectionCode
                              THEN "match" ELSE "mismatch"]
             /\ IF CodeMatches(snd, auth.code)
                THEN /\ isAuthenticated' = [isAuthenticated EXCEPT ![Conn] = TRUE]
                     /\ snd' = StopAdvertising([snd EXCEPT !.client = Conn])
                     /\ wire' = wire \o AuthSuccessReply
                     /\ UNCHANGED sock
                ELSE /\ wire' = wire \o ErrorReply
                     /\ sock' = Destroy(sock, Conn)
                     /\ UNCHANGED <<snd, isAuthenticated>>
        ELSE UNCHANGED <<authTimeout, verdict, isAuthenticated, snd, wire, sock>>
  /\ UNCHANGED <<listeners, starts, toSender, toReceiver, rsock, promise,
                 rclient, sendLog, nameVars, moreVars>>
  /\ UNCHANGED <<rcv, srcFiles, sf, calls, fileSeq, rcvLog, writeFailed, misread>>

\* the receiver's data handler on n units while isResolved is false: an
\* error record rejects and destroys the socket, an auth-success record
\* resolves, and in both cases the handler returns; else the data goes to
\* dataBuffer and processDataBuffer runs
HandshakeData(n, writeOk) ==
  /\ rsock[Conn] = "open"
  /\ promise[Conn] = "pending"
  /\ n \in 1..Len(wire)
  /\ LET data == SubSeq(wire, 1, n)
         reply == FirstReply(SplitLines(data), FALSE)
         m == ProcessDataBuffer(Machine(rcv, data, rcvLog, writeOk, writeFailed))
     IN IF reply = "error"
        THEN /\ rsock' = [rsock EXCEPT ![Conn] = "closed"]
             /\ promise' = [promise EXCEPT ![Conn] =
                              "rejected: Invalid connection code"]
             /\ wire' = <<>>
             /\ UNCHANGED <<rcv, back, rcvLog, writeFailed>>
        ELSE IF reply = "auth-success"
        THEN /\ promise' = [promise EXCEPT ![Conn] = "resolved"]
             /\ wire' = Drop(wire, n)
             /\ UNCHANGED <<rsock, rcv, back, rcvLog, writeFailed>>
        ELSE /\ wire' = Drop(wire, n)
             /\ rcv' = m.svc
             /\ back' = IF sock[Conn] = "open" THEN back \o m.out ELSE back
             /\ rcvLog' = m.log
             /\ writeFailed' = m.failed
             /\ UNCHANGED <<rsock, promise>>
  /\ UNCHANGED <<snd, listeners, starts, sock, isAuthenticated, authTimeout,
                 toSender, toReceiver, verdict, rclient, sendLog, nameVars,
                 moreVars>>
  /\ UNCHANGED <<srcFiles, sf, calls, fileSeq, misread>>

(***************************************************************************)
(* sendFiles in a session.  Either service can be asked to send: the       *)
(* sender's, or the one of a receiver.  A call is followed here up to the  *)
(* metadata frame of its first file (filePaths is not empty); the rest of  *)
(* a call is followed in SpecTransfer.  A frame travels as one record.     *)
(***************************************************************************)
\* the metadata frame, as a record in flight (records to the sender have a
\* code field, which the auth record uses)
MetadataRecord == [type |-> "metadata", code |-> ""]

\* the bytes of a record in flight: a frame with the metadata of a file of
\* one byte
RecordFrame(json) ==
  Frame(json.type, [ fileName |-> PathBaseName(1), fileSize |-> 1,
                     currentFile |-> 1, totalFiles |-> 1, id |-> 0, path |-> 1 ])

\* how a sendFiles call went: whether the service held a sender-side socket
\* that had completed the handshake, what the call did, and whether it wrote
SendOutcome(by, handshaken, client, wrote) ==
  [ by |-> by, handshaken |-> handshaken,
    outcome |-> IF client = NULL THEN "rejected: No receiver connected"
                ELSE "transmitting",
    wrote |-> wrote ]

\* sendFiles on the sender's service
SenderSendFiles ==
  /\ Len(sendLog) < MaxAsks
  /\ LET held == snd.client # NULL /\ isAuthenticated[snd.client]
         writes == snd.client # NULL /\ sock[snd.client] = "open"
     IN /\ sendLog' = Append(sendLog, SendOutcome("sender", held, snd.client, writes))
        /\ toReceiver' = IF writes
                         THEN [toReceiver EXCEPT ![snd.client] =
                                             Append(@, [type |-> MetadataRecord.type])]
                         ELSE toReceiver
  /\ UNCHANGED <<snd, listeners, starts, sock, isAuthenticated, authTimeout,
                 toSender, rsock, promise, verdict, rclient>>
  /\ UNCHANGED notSession

\* sendFiles on the service of the receiver of connection s
ReceiverSendFiles(s) ==
  /\ Len(sendLog) < MaxAsks
  /\ LET writes == rclient[s] /\ rsock[s] = "open"
     IN /\ sendLog' = Append(sendLog, SendOutcome("receiver", FALSE,
                                                  IF rclient[s] THEN s ELSE NULL, writes))
        /\ toSender' = IF writes
                       THEN [toSender EXCEPT ![s] = Append(@, MetadataRecord)]
                       ELSE toSender
  /\ UNCHANGED <<snd, listeners, starts, sock, isAuthenticated, authTimeout,
                 toReceiver, rsock, promise, verdict, rclient>>
  /\ UNCHANGED notSession

\* the data handler the sender sets on an authenticated socket
SenderSocketData(s) ==
  /\ sock[s] = "open"
  /\ isAuthenticated[s]
  /\ toSender[s] # <<>>
  /\ toSender' = [toSender EXCEPT ![s] = Tail(@)]
  /\ snd' = ProcessDataBuffer(Machine(snd, RecordFrame(Head(toSender[s])),
                                      <<>>, TRUE, FALSE)).svc
  /\ UNCHANGED <<listeners, starts, sock, isAuthenticated, authTimeout,
                 toReceiver, rsock, promise, verdict, rclient, sendLog>>
  /\ UNCHANGED notSession

(***************************************************************************)
(* SpecNames: the directory changes under the environment, and             *)
(* getUniqueFileName is applied to it.                                     *)
(***************************************************************************)
\* names a sender can pass: path.basename of a file, never "", "." or ".."
RequestNames ==
  { <<"a">>, <<"a", ".", "t">>, <<".", "a">>, <<"a", ".">>,
    <<".", ".", "a">>, <<"a", ".", "b", ".", "t">> }

\* what the environment may create: the names and their numbered variants
CandidateNames ==
  RequestNames \cup
  { NumberedName(BaseName(n, ExtName(n)), k, ExtName(n)) :
      n \in RequestNames, k \in 1..MaxCounter }



CreateEntry(e) ==
  /\ e \notin fsEntries
  /\ Cardinality(fsEntries) < MaxEntries
  /\ fsEntries' = fsEntries \cup {e}
  /\ nmReq' = <<>> /\ nmRes' = <<>> /\ nmBefore' = {}
  /\ UNCHANGED notNames

RemoveEntry(e) ==
  /\ e \in fsEntries
  /\ fsEntries' = fsEntries \ {e}
  /\ nmReq' = <<>> /\ nmRes' = <<>> /\ nmBefore' = {}
  /\ UNCHANGED notNames

\* a file is saved under the name getUniqueFileName returns
SaveUnder(name) ==
  /\ Cardinality(fsEntries) < MaxEntries
  /\ nmReq' = name
  /\ nmRes' = GetUniqueFileName(name, fsEntries)
  /\ nmBefore' = fsEntries
  /\ fsEntries' = fsEntries \cup {nmRes'}
  /\ UNCHANGED notNames


(***************************************************************************)
(* Progress.  One file of a sendFiles call: the sender's readStream 'data' *)
(* and 'end' handlers and the receiver's processDataBuffer, reduced to the *)
(* byte counts and to the transfer-progress events they send to their      *)
(* windows.  The metadata frame has arrived; the file does not change      *)
(* while it is read.                                                       *)
(***************************************************************************)
\* a percentage counted from the bytes still to come
TransferProgressRemaining(bytes, fileSize) ==
  100 - (200 * bytes + fileSize) \div (2 * fileSize)

\* Math.round((bytes / fileSize) * 100), for fileSize > 0
TransferProgress(bytes, fileSize) ==
  (200 * bytes + fileSize) \div (2 * fileSize)

IdleProgress ==
  tp = [ fileSize |-> 0, phase |-> "idle", sentBytes |-> 0,
         lastProgressUpdate |-> 0, inFlight |-> 0, endMarker |-> "none",
         receivedBytes |-> 0, saved |-> FALSE,
         senderEvents |-> <<>>, receiverEvents |-> <<>> ]

\* readStream 'data' with a chunk of up to BlockUnits bytes; late: more than
\* 100 ms have passed since the last event
ProgressReadData(late) ==
  /\ tp.phase = "reading"
  /\ tp.sentBytes < tp.fileSize
  /\ LET n == Min(BlockUnits, tp.fileSize - tp.sentBytes)
         sentBytes == tp.sentBytes + n
         progress == TransferProgress(sentBytes, tp.fileSize)
         shouldUpdate == \/ progress > tp.lastProgressUpdate
                         \/ late
                         \/ sentBytes = tp.fileSize
     IN tp' = [tp EXCEPT
                 !.sentBytes = sentBytes,
                 !.inFlight = @ + n,
                 !.lastProgressUpdate = IF shouldUpdate THEN progress ELSE @,
                 !.senderEvents = IF shouldUpdate THEN Append(@, progress) ELSE @]
  /\ UNCHANGED <<nameVars, sessVars, xferVars, discVars, localTransferService, remoteVars>>

\* readStream 'end': the final event, and the 100 ms timer is set
ProgressReadEnd ==
  /\ tp.phase = "reading"
  /\ tp.sentBytes = tp.fileSize
  /\ tp' = [tp EXCEPT !.phase = "ended", !.senderEvents = Append(@, 100)]
  /\ UNCHANGED <<nameVars, sessVars, xferVars, discVars, localTransferService, remoteVars>>

\* the 100 ms timer: the file-end frame is written
ProgressEndMarker ==
  /\ tp.phase = "ended"
  /\ tp' = [tp EXCEPT !.phase = "waiting", !.endMarker = "sent"]
  /\ UNCHANGED <<nameVars, sessVars, xferVars, discVars, localTransferService, remoteVars>>

\* the receiver's data handler on k payload bytes: processDataBuffer takes
\* bytesToRead of them and sends the progress
ProgressReceive(k) ==
  /\ k \in 1..tp.inFlight
  /\ ~FileComplete(tp.receivedBytes, tp.fileSize)
  /\ LET bytesToRead == BytesToRead(tp.fileSize - tp.receivedBytes, k)
         receivedBytes == tp.receivedBytes + bytesToRead
     IN /\ bytesToRead > 0
        /\ tp' = [tp EXCEPT
                    !.inFlight = @ - k,
                    !.receivedBytes = receivedBytes,
                    !.receiverEvents =
                       Append(@, TransferProgress(receivedBytes, tp.fileSize))]
  /\ UNCHANGED <<nameVars, sessVars, xferVars, discVars, localTransferService, remoteVars>>

\* the receiver's data handler on the file-end frame: the complete file is
\* saved
ProgressSave ==
  /\ tp.endMarker = "sent"
  /\ tp.inFlight = 0
  /\ FileComplete(tp.receivedBytes, tp.fileSize)
  /\ tp' = [tp EXCEPT !.endMarker = "taken", !.saved = TRUE]
  /\ UNCHANGED <<nameVars, sessVars, xferVars, discVars, localTransferService, remoteVars>>

(***************************************************************************)
(* The lifecycle: cleanupIPCHandlers of the controller, called by the      *)
(* app's window-all-closed and before-quit handlers, and                   *)
(* LocalFileTransferService.cleanup.  Once the handlers are removed the    *)
(* window can call the service no more; events of its sockets still run.   *)
(***************************************************************************)
\* cleanup(): stopSender(); disconnectReceiver(), which finds this.client
\* null after stopSender; this.bonjour.destroy()
CleanupIPCHandlers ==
  /\ IF localTransferService
     THEN /\ sock' = Destroy(sock, snd.client)
          /\ listeners' = listeners \ {snd.server}
          /\ snd' = [StopAdvertising([snd EXCEPT !.isStopping = TRUE,
                                                 !.client = NULL])
                       EXCEPT !.server = NULL, !.bonjour = FALSE]
          /\ localTransferService' = FALSE
     ELSE UNCHANGED <<sock, listeners, snd, localTransferService>>
  /\ UNCHANGED <<starts, isAuthenticated, authTimeout, toSender, toReceiver,
                 rsock, promise, verdict, rclient, sendLog>>
  /\ UNCHANGED <<nameVars, xferVars, discVars, tp, remoteVars>>

(***************************************************************************)
(* A remote transfer: sendFilesToRemote on the sending renderer,           *)
(* handleRemoteData and processWriteQueue on the receiving renderer, over  *)
(* the peer channel, which delivers each direction's messages in order.    *)
(* The transferId of the k-th file of the call is k: Date.now() and the    *)
(* random suffix make the ids of a call distinct.  A chunk is named by its *)
(* transferId and its index.  The receiver's invocations of the main       *)
(* process are served in the order they were made.                         *)
(***************************************************************************)
WindowSize == 2   \* WINDOW_SIZE and the receiver's ACK interval: 20 chunks
FlushChunks == 2  \* chunks that fill the 1 MiB buffer: 4 chunks of 256 KiB

Tids == 1..MaxRemoteFiles

RemoteNames == {<<"d", ".", "b">>, <<"e">>}

RemoteChunk(transferId, chunkIndex) ==
  [transferId |-> transferId, chunkIndex |-> chunkIndex]

\* no entry of incomingFiles
NoIncoming ==
  [ present |-> FALSE, totalChunks |-> 0, receivedChunks |-> 0,
    bufferQueue |-> <<>>, actualFileName |-> <<>>, originalFileName |-> <<>>,
    completing |-> "no", waitQueue |-> 0, finalName |-> <<>> ]

IdleRemote ==
  /\ rs = [ files |-> <<>>, fileIndex |-> 0, phase |-> "idle", i |-> 0,
            acknowledgedChunks |-> 0, timedOut |-> FALSE,
            completed |-> <<>>, failed |-> {}, call |-> 0, ackListener |-> 0 ]
  /\ toPeer = <<>>
  /\ toOwner = <<>>
  /\ rr = [ incomingFiles |-> [t \in Tids |-> NoIncoming],
            fileWriteQueues |-> [t \in Tids |-> 0],
            queues |-> <<>>, invocations |-> <<>> ]
  /\ diskFiles = <<>>

\* ---- the sender: sendFilesToRemote ----

\* the top of the loop over the files: the next file's metadata goes out and
\* sendingFiles gets its entry; the connection's one chunk-ack listener is
\* set up when it has none (ackListener: the call whose sendingFiles that
\* listener reads); after the last file the call is over
NextRemoteFile(s) ==
  IF s.fileIndex < Len(s.files)
  THEN [s EXCEPT !.fileIndex = @ + 1, !.phase = "sending", !.i = 0,
                 !.acknowledgedChunks = 0, !.timedOut = FALSE,
                 !.ackListener = IF @ = 0 THEN s.call ELSE @]
  ELSE [s EXCEPT !.phase = "done"]

\* sendFilesToRemote is called again on the connection, after a call that
\* is over: the transfers of the call follow those of the calls before
SendFilesToRemote(selectedFilePaths) ==
  /\ rs.phase = "done"
  /\ rs.call < MaxRemoteCalls
  /\ Len(rs.files) + Len(selectedFilePaths) <= MaxRemoteFiles
  /\ rs' = [rs EXCEPT !.files = @ \o selectedFilePaths, !.phase = "next",
                      !.call = @ + 1]
  /\ UNCHANGED <<toPeer, toOwner, rr, diskFiles>>
  /\ UNCHANGED <<nameVars, sessVars, xferVars, discVars, localTransferService, tp>>

FileMeta(s) ==
  [ type |-> "file-meta", transferId |-> s.fileIndex,
    fileName |-> s.files[s.fileIndex].fileName,
    totalChunks |-> s.files[s.fileIndex].totalChunks, chunkIndex |-> 0 ]

\* the catch of the file loop: the file is counted as failed and the loop
\* goes on to the next file
FileFailed(s) == [s EXCEPT !.phase = "next", !.failed = @ \cup {s.fileIndex}]

\* sizeOk: getFileSize resolves; when it rejects nothing is sent for the file
SendFileMeta(sizeOk) ==
  /\ rs.phase = "next"
  /\ sizeOk \/ rs.fileIndex < Len(rs.files)
  /\ rs' = IF sizeOk THEN NextRemoteFile(rs)
           ELSE FileFailed([rs EXCEPT !.fileIndex = @ + 1])
  /\ toPeer' = IF rs'.phase = "sending" THEN Append(toPeer, FileMeta(rs'))
               ELSE toPeer
  /\ UNCHANGED <<toOwner, rr, diskFiles>>
  /\ UNCHANGED <<nameVars, sessVars, xferVars, discVars, localTransferService, tp>>

\* the flow control at the top of the chunk loop asks for an ACK
NeedsAck(i) == i > 0 /\ i % WindowSize = 0

\* one turn of the chunk loop: the wait for the ACK where the loop has one,
\* which ends with the ACK or, timeout, when its polls are used up; the read
\* of the chunk, which throws when readOk is false, and its send
SendFileChunk(timeout, readOk) ==
  /\ rs.phase = "sending"
  /\ rs.i < rs.files[rs.fileIndex].totalChunks
  /\ LET minRequiredAck == rs.i - WindowSize
         waits == NeedsAck(rs.i) /\ rs.acknowledgedChunks < minRequiredAck
     IN /\ timeout = waits
        /\ rs' = IF readOk THEN [rs EXCEPT !.i = @ + 1, !.timedOut = timeout]
                 ELSE FileFailed(rs)
  /\ toPeer' = IF readOk
               THEN Append(toPeer, [ type |-> "file-chunk",
                                     transferId |-> rs.fileIndex,
                                     fileName |-> rs.files[rs.fileIndex].fileName,
                                     totalChunks |-> 0, chunkIndex |-> rs.i ])
               ELSE toPeer
  /\ UNCHANGED <<toOwner, rr, diskFiles>>
  /\ UNCHANGED <<nameVars, sessVars, xferVars, discVars, localTransferService, tp>>

\* a final wait that has no timeout: file-complete goes out on the ACK
SendFileCompleteOnAck(timeout) ==
  /\ rs.phase = "sending"
  /\ rs.i = rs.files[rs.fileIndex].totalChunks
  /\ ~timeout /\ rs.acknowledgedChunks >= rs.i
  /\ rs' = [rs EXCEPT !.phase = "next", !.timedOut = timeout,
                      !.completed = Append(@, rs.fileIndex)]
  /\ toPeer' = Append(toPeer, [ type |-> "file-complete",
                                transferId |-> rs.fileIndex,
                                fileName |-> rs.files[rs.fileIndex].fileName,
                                totalChunks |-> 0, chunkIndex |-> 0 ])
  /\ UNCHANGED <<toOwner, rr, diskFiles>>
  /\ UNCHANGED <<nameVars, sessVars, xferVars, discVars, localTransferService, tp>>

\* after the last chunk: the wait for the final ACK, which ends with it or
\* with its timeout; file-complete; the entry of sendingFiles is deleted
SendFileComplete(timeout) ==
  /\ rs.phase = "sending"
  /\ rs.i = rs.files[rs.fileIndex].totalChunks
  /\ timeout = (rs.acknowledgedChunks < rs.i)
  /\ rs' = [rs EXCEPT !.phase = "next", !.timedOut = timeout,
                      !.completed = Append(@, rs.fileIndex)]
  /\ toPeer' = Append(toPeer, [ type |-> "file-complete",
                                transferId |-> rs.fileIndex,
                                fileName |-> rs.files[rs.fileIndex].fileName,
                                totalChunks |-> 0, chunkIndex |-> 0 ])
  /\ UNCHANGED <<toOwner, rr, diskFiles>>
  /\ UNCHANGED <<nameVars, sessVars, xferVars, discVars, localTransferService, tp>>

\* the sender's listener gets a chunk-ack: it is recorded when sendingFiles
\* has an entry for its transferId
ChunkAckArrives ==
  /\ toOwner # <<>>
  /\ LET data == Head(toOwner)
     IN rs' = IF /\ rs.phase = "sending" /\ data.transferId = rs.fileIndex
                 /\ rs.ackListener = rs.call
              THEN [rs EXCEPT !.acknowledgedChunks = data.receivedChunks]
              ELSE rs
  /\ toOwner' = Tail(toOwner)
  /\ UNCHANGED <<toPeer, rr, diskFiles>>
  /\ UNCHANGED <<nameVars, sessVars, xferVars, discVars, localTransferService, tp>>

\* ---- the main process's file streams ----

\* init-file-stream: a file of a name no file of the directory has
InitFileStream(files, fileName, transferId) ==
  Append(files,
         [ fileName |-> GetUniqueFileName(fileName,
                          {files[n].fileName : n \in DOMAIN files}),
           chunks |-> <<>>, finalized |-> FALSE, transferId |-> transferId,
           drained |-> TRUE ])

\* append-file-chunk: the data goes to the end of the file of that name,
\* while its handle is open
AppendFileChunk(files, fileName, data) ==
  [n \in DOMAIN files |->
     IF files[n].fileName = fileName /\ ~files[n].finalized
     THEN [files[n] EXCEPT !.chunks = @ \o data]
     ELSE files[n]]

\* finalize-file: the file of that name is closed; drained: the renderer's
\* wait for its write queue did not time out
FinalizeFile(files, fileName, drained) ==
  [n \in DOMAIN files |->
     IF files[n].fileName = fileName /\ ~files[n].finalized
     THEN [files[n] EXCEPT !.finalized = TRUE, !.drained = drained]
     ELSE files[n]]

\* ---- the receiver: handleRemoteData, processWriteQueue ----

ActualFileName(file) ==
  IF file.actualFileName # <<>> THEN file.actualFileName
  ELSE file.originalFileName

Invoke(r, channel, fileName, transferId, data, queue, drained) ==
  [r EXCEPT !.invocations =
     Append(@, [ channel |-> channel, fileName |-> fileName,
                 transferId |-> transferId, data |-> data, queue |-> queue,
                 drained |-> drained ])]

NewQueue == [items |-> <<>>, isProcessing |-> FALSE]

\* processWriteQueue up to its first await: nothing when the transfer has no
\* queue, the queue is being processed or it is empty; else the first item
\* is taken and its write invoked under the name the call was given
ProcessWriteQueue(r, queueKey, actualFileName) ==
  LET q == r.fileWriteQueues[queueKey]
  IN IF q = 0 THEN r
     ELSE IF r.queues[q].isProcessing \/ r.queues[q].items = <<>> THEN r
     ELSE Invoke([r EXCEPT !.queues[q].isProcessing = TRUE,
                           !.queues[q].items = Tail(@)],
                 "append-file-chunk", actualFileName, queueKey,
                 Head(r.queues[q].items), q, TRUE)

\* the queue has no item and no write in flight
Drained(r, q) == r.queues[q].items = <<>> /\ ~r.queues[q].isProcessing

\* file-meta: the entry of incomingFiles, and the file stream is asked for
OnFileMeta(r, data) ==
  Invoke([r EXCEPT !.incomingFiles[data.transferId] =
            [NoIncoming EXCEPT !.present = TRUE,
                               !.totalChunks = data.totalChunks,
                               !.originalFileName = data.fileName]],
         "init-file-stream", data.fileName, data.transferId, <<>>, 0, TRUE)

\* the flush of a file-chunk: the buffered chunks become one item of the
\* transfer's queue, which is created when it has none, and the queue is
\* processed under the name the handler read when the chunk arrived
Flush(r, transferId, actualFileName) ==
  LET combined == r.incomingFiles[transferId].bufferQueue
      r1 == [r EXCEPT !.incomingFiles[transferId].bufferQueue = <<>>]
      r2 == IF r1.fileWriteQueues[transferId] = 0
            THEN [r1 EXCEPT !.queues = Append(@, NewQueue),
                            !.fileWriteQueues[transferId] = Len(r1.queues) + 1]
            ELSE r1
      q == r2.fileWriteQueues[transferId]
      r3 == [r2 EXCEPT !.queues[q].items = Append(@, combined)]
  IN ProcessWriteQueue(r3, transferId, actualFileName)

\* file-chunk of a transfer incomingFiles has
OnFileChunk(r, data) ==
  LET transferId == data.transferId
      file == r.incomingFiles[transferId]
      actualFileName == ActualFileName(file)
      receivedChunks == file.receivedChunks + 1
      r1 == [r EXCEPT !.incomingFiles[transferId].bufferQueue =
                        Append(@, RemoteChunk(transferId, data.chunkIndex)),
                      !.incomingFiles[transferId].receivedChunks = receivedChunks]
      shouldFlush == \/ Len(r1.incomingFiles[transferId].bufferQueue) >= FlushChunks
                     \/ receivedChunks = file.totalChunks
  IN IF shouldFlush THEN Flush(r1, transferId, actualFileName) ELSE r1

\* an ACK for every chunk
ShouldSendAckAlways(file) == TRUE

\* shouldSendAck, for the chunk that is being handled
ShouldSendAck(file) ==
  \/ (file.receivedChunks + 1) % WindowSize = 0
  \/ file.receivedChunks + 1 = file.totalChunks

\* file-complete of a transfer incomingFiles has: with no queue, or a
\* drained one, the file is finalized at once under the name read now;
\* else the handler waits on the queue the transfer has now
OnFileComplete(r, data) ==
  LET transferId == data.transferId
      file == r.incomingFiles[transferId]
      queue == r.fileWriteQueues[transferId]
  IN IF queue = 0 \/ Drained(r, queue)
     THEN Invoke([r EXCEPT !.incomingFiles[transferId].completing = "finalizing"],
                 "finalize-file", ActualFileName(file), transferId, <<>>, 0,
                 TRUE)
     ELSE [r EXCEPT !.incomingFiles[transferId].completing = "waiting",
                    !.incomingFiles[transferId].waitQueue = queue,
                    !.incomingFiles[transferId].finalName =
                       ActualFileName(file)]

\* the receiver's connection delivers the next message
HandleRemoteData ==
  /\ toPeer # <<>>
  /\ LET data == Head(toPeer)
         file == rr.incomingFiles[data.transferId]
     IN /\ rr' = IF data.type = "file-meta" THEN OnFileMeta(rr, data)
                 ELSE IF ~file.present THEN rr
                 ELSE IF data.type = "file-chunk" THEN OnFileChunk(rr, data)
                 ELSE OnFileComplete(rr, data)
        /\ toOwner' = IF data.type = "file-chunk" /\ file.present
                         /\ ShouldSendAck(file)
                      THEN Append(toOwner,
                                  [ type |-> "chunk-ack",
                                    transferId |-> data.transferId,
                                    receivedChunks |-> file.receivedChunks + 1 ])
                      ELSE toOwner
  /\ toPeer' = Tail(toPeer)
  /\ UNCHANGED <<rs, diskFiles>>
  /\ UNCHANGED <<nameVars, sessVars, xferVars, discVars, localTransferService, tp>>

\* the wait of the file-complete handler on the queue it read ends: the
\* queue is drained, or, timeout, the polls are used up; the file is
\* finalized under the name the handler read when file-complete arrived
QueueWaitEnds(transferId, timeout) ==
  /\ rr.incomingFiles[transferId].completing = "waiting"
  /\ timeout = ~Drained(rr, rr.incomingFiles[transferId].waitQueue)
  /\ rr' = Invoke([rr EXCEPT !.incomingFiles[transferId].completing = "finalizing"],
                  "finalize-file", rr.incomingFiles[transferId].finalName,
                  transferId, <<>>, 0, ~timeout)
  /\ UNCHANGED <<rs, toPeer, toOwner, diskFiles>>
  /\ UNCHANGED <<nameVars, sessVars, xferVars, discVars, localTransferService, tp>>

Served(r) == [r EXCEPT !.invocations = Tail(@)]

\* initFileStream resolves: the name the file got is kept when it is not
\* the sender's, and the transfer gets a new, empty queue
InitFileStreamResolves ==
  /\ rr.invocations # <<>>
  /\ Head(rr.invocations).channel = "init-file-stream"
  /\ LET call == Head(rr.invocations)
         transferId == call.transferId
         files == InitFileStream(diskFiles, call.fileName, transferId)
         result == files[Len(files)]
         r1 == IF result.fileName # call.fileName
               THEN [rr EXCEPT !.incomingFiles[transferId].actualFileName =
                                 result.fileName]
               ELSE rr
     IN /\ diskFiles' = files
        /\ rr' = Served([r1 EXCEPT !.queues = Append(@, NewQueue),
                                   !.fileWriteQueues[transferId] =
                                      Len(rr.queues) + 1])
  /\ UNCHANGED <<rs, toPeer, toOwner>>
  /\ UNCHANGED <<nameVars, sessVars, xferVars, discVars, localTransferService, tp>>

\* appendFileChunk resolves: the loop of processWriteQueue goes on with the
\* next item of its queue under the same name, or ends
AppendFileChunkResolves ==
  /\ rr.invocations # <<>>
  /\ Head(rr.invocations).channel = "append-file-chunk"
  /\ LET call == Head(rr.invocations)
         q == call.queue
         r1 == Served(rr)
     IN /\ diskFiles' = AppendFileChunk(diskFiles, call.fileName, call.data)
        /\ rr' = IF r1.queues[q].items # <<>>
                 THEN Invoke([r1 EXCEPT !.queues[q].items = Tail(@)],
                             "append-file-chunk", call.fileName,
                             call.transferId, Head(r1.queues[q].items), q, TRUE)
                 ELSE [r1 EXCEPT !.queues[q].isProcessing = FALSE]
  /\ UNCHANGED <<rs, toPeer, toOwner>>
  /\ UNCHANGED <<nameVars, sessVars, xferVars, discVars, localTransferService, tp>>

\* finalizeFile resolves: the transfer's entries are deleted
FinalizeFileResolves ==
  /\ rr.invocations # <<>>
  /\ Head(rr.invocations).channel = "finalize-file"
  /\ LET call == Head(rr.invocations)
     IN /\ diskFiles' = FinalizeFile(diskFiles, call.fileName, call.drained)
        /\ rr' = Served([rr EXCEPT !.incomingFiles[call.transferId] = NoIncoming,
                                   !.fileWriteQueues[call.transferId] = 0])
  /\ UNCHANGED <<rs, toPeer, toOwner>>
  /\ UNCHANGED <<nameVars, sessVars, xferVars, discVars, localTransferService, tp>>

\* the chunks of the files of a call, together
RECURSIVE SumChunks(_)
SumChunks(files) ==
  IF files = <<>> THEN 0
  ELSE files[1].totalChunks + SumChunks(Tail(files))

(***************************************************************************)
(* The specifications                                                      *)
(***************************************************************************)
\* the state beside the directory, the session and the transfer, at start
IdleMore == IdleDiscovery /\ IdleProgress /\ IdleRemote

InitNames == IdleNames /\ IdleSession /\ IdleTransfer /\ IdleMore

NextNames ==
  \/ \E e \in CandidateNames : CreateEntry(e)
  \/ \E e \in fsEntries : RemoveEntry(e)
  \/ \E n \in RequestNames : SaveUnder(n)

SpecNames == InitNames /\ [][NextNames]_vars

InitSession == IdleSession /\ IdleNames /\ IdleTransfer /\ IdleMore

NextSession ==
  \/ \E code \in Codes : StartSender(code)
  \/ StopSender
  \/ \E s \in Socks, p \in 1..MaxStarts, code \in Codes : ConnectToSender(s, p, code)
  \/ \E s \in Socks : AuthHandler(s)
  \/ \E s \in Socks : AuthTimeoutFires(s)
  \/ \E s \in Socks : SenderSocketError(s)
  \/ \E s \in Socks : SenderSocketClose(s)
  \/ \E s \in Socks : ReceiverReply(s)
  \/ \E s \in Socks : ReceiverSocketError(s)
  \/ \E s \in Socks : ReceiverSocketClose(s)
  \/ \E s \in Socks : DisconnectReceiver(s)

SpecSession == InitSession /\ [][NextSession]_vars

\* the session, with sendFiles asked of either service
NextSessionSend ==
  \/ \E code \in Codes : StartSender(code)
  \/ StopSender
  \/ \E s \in Socks, p \in 1..MaxStarts, code \in Codes : ConnectToSender(s, p, code)
  \/ \E s \in Socks : AuthHandler(s)
  \/ \E s \in Socks : AuthTimeoutFires(s)
  \/ \E s \in Socks : SenderSocketError(s)
  \/ \E s \in Socks : SenderSocketClose(s)
  \/ \E s \in Socks : ReceiverReply(s)
  \/ \E s \in Socks : ReceiverSocketError(s)
  \/ \E s \in Socks : ReceiverSocketClose(s)
  \/ \E s \in Socks : DisconnectReceiver(s)
  \/ SenderSendFiles
  \/ \E s \in Socks : ReceiverSendFiles(s)
  \/ \E s \in Socks : SenderSocketData(s)

SpecSessionSend == InitSession /\ [][NextSessionSend]_vars

\* the state once connectToSender resolved: startSender, connectToSender
\* with the sender's code, authHandler, the receiver's data handler
InitTransfer ==
  /\ IdleNames
  /\ IdleMore
  /\ snd = [NewService EXCEPT !.server = 1, !.port = 1, !.client = Conn,
                              !.connectionCode = CHOOSE code \in Codes : TRUE]
  /\ listeners = {1}
  /\ starts = 1
  /\ sock = [s \in Socks |-> IF s = Conn THEN "open" ELSE "none"]
  /\ isAuthenticated = [s \in Socks |-> s = Conn]
  /\ authTimeout = [s \in Socks |-> FALSE]
  /\ toSender = [s \in Socks |-> <<>>]
  /\ toReceiver = [s \in Socks |-> <<>>]
  /\ rsock = [s \in Socks |-> IF s = Conn THEN "open" ELSE "none"]
  /\ promise = [s \in Socks |-> IF s = Conn THEN "resolved" ELSE "none"]
  /\ verdict = [s \in Socks |-> IF s = Conn THEN "match" ELSE "none"]
  /\ rclient = [s \in Socks |-> s = Conn]
  /\ sendLog = <<>>
  /\ rcv = [NewService EXCEPT !.client = Conn]
  /\ srcFiles \in [Paths -> FileContents]
  /\ wire = <<>>
  /\ back = <<>>
  /\ sf = NoCall
  /\ calls = 0
  /\ fileSeq = 0
  /\ rcvLog = <<>>
  /\ writeFailed = FALSE
  /\ misread = FALSE

NextTransfer ==
  \/ \E filePaths \in PathLists(MaxSends - fileSeq) :
       \E statOk \in BOOLEAN : SendFiles(filePaths, statOk)
  \/ \E canContinue \in BOOLEAN : ReadData(canContinue)
  \/ Drain
  \/ ReadEnd
  \/ ReadError
  \/ EndMarkerTimer
  \/ \E statOk \in BOOLEAN : AckTimeoutFires(statOk)
  \/ \E n \in FrameEnds(back) : \E statOk \in BOOLEAN : SenderData(n, statOk)
  \/ \E n \in 1..Len(wire) : \E writeOk \in WriteOutcomes(n) : ReceiverData(n, writeOk)
  \/ ReceiverDisconnect
  \/ SenderSocketClose(Conn)

SpecTransfer == InitTransfer /\ [][NextTransfer]_vars

\* the state once the connect callback of connectToSender(ip, 1, code, dir)
\* has run against a sender that listens: the auth record is on its way
InitHandshake ==
  /\ IdleNames
  /\ IdleMore
  /\ snd = [NewService EXCEPT !.server = 1, !.port = 1, !.bonjourService = 1,
                              !.connectionCode = CHOOSE code \in Codes : TRUE]
  /\ listeners = {1}
  /\ starts = 1
  /\ sock = [s \in Socks |-> IF s = Conn THEN "open" ELSE "none"]
  /\ isAuthenticated = [s \in Socks |-> FALSE]
  /\ authTimeout = [s \in Socks |-> s = Conn]
  /\ toSender = [s \in Socks |-> <<>>]
  /\ toReceiver = [s \in Socks |-> <<>>]
  /\ rsock = [s \in Socks |-> IF s = Conn THEN "open" ELSE "none"]
  /\ promise = [s \in Socks |-> IF s = Conn THEN "pending" ELSE "none"]
  /\ verdict = [s \in Socks |-> "none"]
  /\ rclient = [s \in Socks |-> s = Conn]
  /\ sendLog = <<>>
  /\ rcv = [NewService EXCEPT !.client = Conn]
  /\ srcFiles \in [Paths -> FileContents]
  /\ wire = <<>>
  /\ \E code \in Codes : back = AuthRecord(code)
  /\ sf = NoCall
  /\ calls = 0
  /\ fileSeq = 0
  /\ rcvLog = <<>>
  /\ writeFailed = FALSE
  /\ misread = FALSE

\* the handshake, and a sendFiles call of one file on the sender
NextHandshake ==
  \/ \E n \in 1..Len(back) : AuthHandlerData(n)
  \/ AuthTimeoutFires(Conn)
  \/ \E n \in 1..Len(wire) : \E writeOk \in WriteOutcomes(n) :
       HandshakeData(n, writeOk)
  \/ \E n \in 1..Len(wire) : \E writeOk \in WriteOutcomes(n) :
       promise[Conn] # "pending" /\ ReceiverData(n, writeOk)
  \/ \E filePaths \in PathLists(1) : fileSeq = 0 /\ SendFiles(filePaths, TRUE)
  \/ ReadData(TRUE)
  \/ ReadEnd
  \/ EndMarkerTimer
  \/ AckTimeoutFires(TRUE)
  \/ \E n \in FrameEnds(back) : isAuthenticated[Conn] /\ SenderData(n, TRUE)
  \/ SenderSocketClose(Conn)

SpecHandshake == InitHandshake /\ [][NextHandshake]_vars

\* two sendFiles calls of one file, the second issued while the first is in
\* progress; a file-saved frame is handled in the turn of the call whose
\* resolver is set
NextTwoCalls ==
  \/ \E filePaths \in PathLists(1) : SendFiles(filePaths, TRUE)
  \/ \E filePaths \in PathLists(1) :
       \E statOk \in BOOLEAN : SendFilesAgain(filePaths, statOk)
  \/ OtherCallRuns
  \/ ReadData(TRUE)
  \/ ReadEnd
  \/ EndMarkerTimer
  \/ AckTimeoutFires(TRUE)
  \/ \E n \in FrameEnds(back) :
       snd.fileSavedResolver \in {NULL, sf.id} /\ SenderData(n, TRUE)
  \/ \E n \in 1..Len(wire) : \E writeOk \in WriteOutcomes(n) : ReceiverData(n, writeOk)

SpecTwoCalls == InitTransfer /\ [][NextTwoCalls]_vars

\* sendFiles calls of one file, with the socket's writes reporting a full
\* buffer at will, while another connection comes, sends no auth record
\* and goes
NextBackpressure ==
  \/ \E filePaths \in PathLists(1) : SendFiles(filePaths, TRUE)
  \/ \E canContinue \in BOOLEAN : ReadData(canContinue)
  \/ Drain
  \/ ReadEnd
  \/ EndMarkerTimer
  \/ AckTimeoutFires(TRUE)
  \/ \E n \in FrameEnds(back) : SenderData(n, TRUE)
  \/ \E n \in 1..Len(wire) : ReceiverData(n, TRUE)
  \/ ReceiverDisconnect
  \/ \E s \in Socks \ {Conn}, code \in Codes : ConnectToSender(s, 1, code)
  \/ \E s \in Socks \ {Conn} : AuthTimeoutFires(s)
  \/ \E s \in Socks : SenderSocketClose(s)

SpecBackpressure == InitTransfer /\ [][NextBackpressure]_vars

\* the window's calls reach the service while the controller holds it
NextLifecycle ==
  \/ localTransferService /\ \E code \in Codes : StartSender(code)
  \/ localTransferService /\ StopSender
  \/ CleanupIPCHandlers
  \/ \E s \in Socks, p \in 1..MaxStarts, code \in Codes : ConnectToSender(s, p, code)
  \/ \E s \in Socks : AuthHandler(s)
  \/ \E s \in Socks : AuthTimeoutFires(s)
  \/ \E s \in Socks : SenderSocketError(s)
  \/ \E s \in Socks : SenderSocketClose(s)
  \/ \E s \in Socks : ReceiverReply(s)
  \/ \E s \in Socks : ReceiverSocketError(s)
  \/ \E s \in Socks : ReceiverSocketClose(s)
  \/ \E s \in Socks : DisconnectReceiver(s)

SpecLifecycle == InitSession /\ [][NextLifecycle]_vars

\* sendFile has stat'ed a file of fileSize bytes and written its metadata
InitProgress ==
  /\ IdleNames /\ IdleSession /\ IdleTransfer /\ IdleDiscovery /\ IdleRemote
  /\ \E fileSize \in 0..MaxSize :
       tp = [ fileSize |-> fileSize, phase |-> "reading", sentBytes |-> 0,
              lastProgressUpdate |-> 0, inFlight |-> 0, endMarker |-> "none",
              receivedBytes |-> 0, saved |-> FALSE,
              senderEvents |-> <<>>, receiverEvents |-> <<>> ]

NextProgress ==
  \/ \E late \in BOOLEAN : ProgressReadData(late)
  \/ ProgressReadEnd
  \/ ProgressEndMarker
  \/ \E k \in 1..MaxSize : ProgressReceive(k)
  \/ ProgressSave

SpecProgress == InitProgress /\ [][NextProgress]_vars

\* sendFilesToRemote is called with the files of RemoteCalls' lists
RemoteCalls ==
  { files \in UNION {[1..n -> [fileName : RemoteNames, totalChunks : 0..MaxChunks]]
                       : n \in 1..MaxRemoteFiles} :
      /\ files[1].fileName = <<"d", ".", "b">>
      /\ SumChunks(files) <= MaxChunks }

InitRemote ==
  /\ IdleNames /\ IdleSession /\ IdleTransfer /\ IdleDiscovery /\ IdleProgress
  /\ \E files \in RemoteCalls :
       rs = [ files |-> files, fileIndex |-> 0, phase |-> "next", i |-> 0,
              acknowledgedChunks |-> 0, timedOut |-> FALSE,
              completed |-> <<>>, failed |-> {}, call |-> 1, ackListener |-> 0 ]
  /\ toPeer = <<>>
  /\ toOwner = <<>>
  /\ rr = [ incomingFiles |-> [t \in Tids |-> NoIncoming],
            fileWriteQueues |-> [t \in Tids |-> 0],
            queues |-> <<>>, invocations |-> <<>> ]
  /\ diskFiles = <<>>

NextRemote ==
  \/ \E sizeOk \in BOOLEAN : SendFileMeta(sizeOk)
  \/ \E timeout, readOk \in BOOLEAN : SendFileChunk(timeout, readOk)
  \/ \E timeout \in BOOLEAN : SendFileComplete(timeout)
  \/ ChunkAckArrives
  \/ HandleRemoteData
  \/ \E transferId \in Tids, timeout \in BOOLEAN :
       QueueWaitEnds(transferId, timeout)
  \/ InitFileStreamResolves
  \/ AppendFileChunkResolves
  \/ FinalizeFileResolves

SpecRemote == InitRemote /\ [][NextRemote]_vars

\* the same, with further calls of sendFilesToRemote on the connection
NextRemoteCalls ==
  \/ NextRemote
  \/ \E selectedFilePaths \in RemoteCalls : SendFilesToRemote(selectedFilePaths)

SpecRemoteCalls == InitRemote /\ [][NextRemoteCalls]_vars

InitDiscover == IdleNames /\ IdleSession /\ IdleTransfer /\ IdleMore

NextDiscover ==
  \/ DiscoverServices
  \/ \E name \in PeerNames, port \in PeerPorts, txtHostname \in {"", "peer"} :
       BrowserUp(name, port, txtHostname)
  \/ \E name \in PeerNames : BrowserDown(name)
  \/ WindowElapses

SpecDiscover == InitDiscover /\ [][NextDiscover]_vars

(***************************************************************************)
(* C1: in a sender session at most one accepted socket is authenticated    *)
(* at any time: while an authenticated receiver's socket is open, a        *)
(* correct auth record on another connection does not promote it.          *)
(***************************************************************************)
AuthenticatedOpen == {s \in Socks : isAuthenticated[s] /\ sock[s] = "open"}

C1_SingleAuthenticated == Cardinality(AuthenticatedOpen) <= 1

(***************************************************************************)
(* C2: the advertisement is published if and only if the sender is         *)
(* listening, has no authenticated receiver, and is not stopping.          *)
(***************************************************************************)
C2_AdvertisedIffIdle ==
  (snd.bonjourService # NULL) <=>
    /\ snd.server # NULL /\ snd.server \in listeners
    /\ AuthenticatedOpen = {}
    /\ ~snd.isStopping

(***************************************************************************)
(* C9: when the auth record of a connection carries a code other than the  *)
(* sender's, the sender replies error, destroys that socket and never      *)
(* promotes it; the receiver's connectToSender never resolves, and rejects *)
(* with "Invalid connection code" when its data handler gets the reply.    *)
(***************************************************************************)
WrongCode(s) == verdict[s] = "mismatch"

C10_SettledOnceClosed ==
  \A s \in Socks : rsock[s] = "closed" => promise[s] # "pending"

(***************************************************************************)
(* C3: the sender writes the metadata frame of file k+1 only after it got  *)
(* the file-saved frame for file k, or the 30 s wait for file k expired.   *)
(* sf.ended[k] tells what ended the wait for the k-th file of the call;    *)
(* the metadata frame of file k+1 is written when k < sf.i.  Stated for    *)
(* the first sendFiles call of the session, which no earlier call that     *)
(* ended with an error precedes.                                           *)
(***************************************************************************)
C3_MetadataAfterAck ==
  calls = 1 =>
    \A k \in 1..Len(sf.ended) :
      k < sf.i => sf.ended[k] \in {"file-saved", "timeout"}

(***************************************************************************)
(* C4: for a sendFiles call with N files over a connection that stays      *)
(* open, the receiver sends file-saved N times, once per file, in the      *)
(* order 1..N, each on that file's file-end frame.  Stated for a call that *)
(* returned, when all it wrote has arrived and no write to the save        *)
(* directory has failed.                                                   *)
(***************************************************************************)
\* the files of the sendFiles call, in order
CallFiles == [k \in 1..Len(sf.paths) |-> sf.id - sf.i + k]

IsAckOfCall(e) ==
  e.ev = "file-saved" /\ \E k \in 1..Len(sf.paths) : CallFiles[k] = e.id

AcksOfCall == SelectSeq(rcvLog, IsAckOfCall)

C4_AckPerFile ==
  ( /\ sf.result = "resolved"
    /\ sock[Conn] = "open" /\ rsock[Conn] = "open"
    /\ wire = <<>>
    /\ ~writeFailed )
  => /\ Len(AcksOfCall) = Len(sf.paths)
     /\ \A k \in 1..Len(AcksOfCall) :
          /\ AcksOfCall[k].id = CallFiles[k]
          /\ AcksOfCall[k].endId = CallFiles[k]

(***************************************************************************)
(* C5: receivedBytes never exceeds the fileSize of the metadata; a file is *)
(* written with exactly fileSize bytes, and a file-saved frame is sent     *)
(* only for a file that was written before it.                             *)
(***************************************************************************)
C5_ExactSize ==
  /\ rcv.receivedBytes <= rcv.currentFileMetadata.fileSize
  /\ \A i \in 1..Len(rcvLog) :
       /\ rcvLog[i].ev = "written" => Len(rcvLog[i].bytes) = rcvLog[i].size
       /\ rcvLog[i].ev = "file-saved" =>
            \E j \in 1..(i - 1) :
              /\ rcvLog[j].ev = "written"
              /\ rcvLog[j].id = rcvLog[i].id
              /\ Len(rcvLog[j].bytes) = rcvLog[j].size

\* two files of three bytes were written and acknowledged
C5_Witness ==
  /\ Len(rcvLog) >= 4
  /\ rcvLog[3].ev = "written" /\ rcvLog[3].size = 3
  /\ rcvLog[4].ev = "file-saved" /\ rcvLog[4].id = rcvLog[3].id

(***************************************************************************)
(* C6: every file the receiver saves holds exactly the bytes of the file   *)
(* the sender read, in order, over any sequence of sendFiles calls.        *)
(***************************************************************************)
C6_SavedEqualsRead ==
  \A i \in 1..Len(rcvLog) :
    rcvLog[i].ev = "written" => rcvLog[i].bytes = srcFiles[rcvLog[i].path]

(***************************************************************************)
(* C7: while the receiver is receiving a file and receivedBytes is less    *)
(* than fileSize, no incoming byte is taken for a control frame, a         *)
(* handshake reply or an error message.                                    *)
(***************************************************************************)
C7_PayloadOnly == ~misread


(***************************************************************************)
(* C11: sendFiles transmits only when the service holds a sender-side      *)
(* socket that has completed the handshake; in every other state it        *)
(* rejects with "No receiver connected" and writes nothing to any socket.  *)
(***************************************************************************)
C11_SendFilesGuard ==
  \A i \in 1..Len(sendLog) :
    IF sendLog[i].handshaken
    THEN sendLog[i].outcome = "transmitting"
    ELSE /\ sendLog[i].outcome = "rejected: No receiver connected"
         /\ ~sendLog[i].wrote

(***************************************************************************)
(* C12: stopSender can be called in any state, any number of times; after  *)
(* it returns the service holds no listener, no client socket and no       *)
(* advertisement; a repeated call changes nothing; a following startSender *)
(* binds a new listener and returns a port in 1..65535 and a code.         *)
(***************************************************************************)
\* the state stopSender leaves
Stopped ==
  /\ snd.isStopping
  /\ snd.server = NULL /\ snd.client = NULL /\ snd.bonjourService = NULL

C12_StopSender ==
  [][ /\ StopSender =>
           /\ snd'.server = NULL /\ snd'.client = NULL
           /\ snd'.bonjourService = NULL
           /\ listeners' = {}
      /\ (Stopped /\ StopSender) => UNCHANGED vars
      /\ (Stopped /\ \E code \in Codes : StartSender(code)) =>
           /\ snd'.server \in listeners' \ listeners
           /\ snd'.port \in 1..65535
           /\ snd'.connectionCode \in Codes ]_vars

(***************************************************************************)
(* C13: after stopSender and until the next startSender no connection is   *)
(* promoted to authenticated and no auth-success is sent, also on a        *)
(* connection accepted before the stop.                                    *)
(***************************************************************************)
C13_NoPromotionAfterStop ==
  [][ snd.isStopping =>
        \A s \in Socks :
          /\ isAuthenticated'[s] => isAuthenticated[s]
          /\ Len(toReceiver'[s]) > Len(toReceiver[s]) =>
                toReceiver'[s][Len(toReceiver'[s])].type # "auth-success" ]_vars

(***************************************************************************)
(* C14: while isStopping is set the advertisement is not published, also   *)
(* after the authenticated socket closed or failed during or after         *)
(* stopSender.                                                             *)
(***************************************************************************)
C14_NotPublishedWhileStopping ==
  snd.isStopping => snd.bonjourService = NULL

\* stopSender destroyed the authenticated socket (nothing else destroys
\* one), its close handler has run, and the service could publish
C14_Witness ==
  /\ snd.isStopping
  /\ snd.bonjour /\ snd.port # 0
  /\ \E s \in Socks : isAuthenticated[s] /\ sock[s] = "closed" /\ rsock[s] = "open"

(***************************************************************************)
(* C15: every sendFiles call resolves or rejects in the end, also when the *)
(* receiver closes its socket in the middle of a file.  Only the steps of  *)
(* the call itself (the stream's data and end, the socket's drain, the     *)
(* 100 ms and the 30 s timers) move a pending call on, so a pending call   *)
(* must always have such a step to take, or the sender's socket still has  *)
(* its close event to deliver.                                             *)
(***************************************************************************)
CallStep ==
  \/ \E canContinue \in BOOLEAN : ReadData(canContinue)
  \/ Drain
  \/ ReadEnd
  \/ EndMarkerTimer
  \/ \E statOk \in BOOLEAN : AckTimeoutFires(statOk)
  \/ SenderSocketClose(Conn)

C15_CallCanProceed == sf.result = "pending" => ENABLED CallStep

(***************************************************************************)
(* C16: transfer-complete is sent once for a sendFiles call that resolves, *)
(* only after every file of the list was acknowledged by its file-saved    *)
(* or its wait timed out, and never for a call that did not resolve.       *)
(* Stated for the first call of the session.                               *)
(***************************************************************************)
C16_CompleteOnce ==
  calls = 1 =>
    IF sf.result = "resolved"
    THEN /\ sf.completes = 1
         /\ Len(sf.ended) = Len(sf.paths)
         /\ \A k \in 1..Len(sf.ended) : sf.ended[k] \in {"file-saved", "timeout"}
    ELSE sf.completes = 0

(***************************************************************************)
(* C17: a file of size 0, sent alone in the first call: on its metadata    *)
(* the receiver is receiving with no payload consumed; once its file-end   *)
(* has arrived a file of 0 bytes is written and file-saved sent; on that   *)
(* file-saved the sender sends transfer-complete.                          *)
(***************************************************************************)
ZeroCall ==
  /\ calls = 1 /\ Len(sf.paths) = 1 /\ srcFiles[sf.paths[1]] = <<>>
  /\ sf.result # "rejected: stat"

\* all the sender wrote, the file-end frame included, has reached a
\* receiver whose writes succeed
FileEndArrived ==
  /\ sf.phase = "waiting" \/ sf.result = "resolved"
  /\ wire = <<>>
  /\ sock[Conn] = "open" /\ rsock[Conn] = "open"
  /\ ~writeFailed

C17_EmptyFile ==
  ZeroCall =>
    /\ rcv.currentFileMetadata.id = sf.id =>
          rcv.isReceiving /\ rcv.receivedBytes = 0 /\ rcv.receivingBuffer = <<>>
    /\ \A i \in 1..Len(rcvLog) :
          rcvLog[i].ev = "written" =>
            /\ rcvLog[i].bytes = <<>> /\ rcvLog[i].size = 0
            /\ i < Len(rcvLog)
            /\ rcvLog[i + 1].ev = "file-saved" /\ rcvLog[i + 1].id = rcvLog[i].id
    /\ FileEndArrived =>
          \E i \in 1..Len(rcvLog) : rcvLog[i].ev = "written" /\ rcvLog[i].id = sf.id
    /\ sf.ended = <<"file-saved">> => sf.result = "resolved" /\ sf.completes = 1

C17_Witness ==
  /\ ZeroCall
  /\ sf.result = "resolved" /\ sf.ended = <<"file-saved">>
  /\ Len(rcvLog) = 2
  /\ rcvLog[1].ev = "written" /\ rcvLog[1].bytes = <<>>
  /\ rcvLog[2].ev = "file-saved"

(***************************************************************************)
(* C18: when the receive loop extracts a delimiter-terminated frame that   *)
(* is not a valid record, the error is reported and the socket closed.     *)
(***************************************************************************)
C18_MalformedClosesSocket ==
  (\E i \in 1..Len(rcvLog) : rcvLog[i].ev = "malformed") => rsock[Conn] = "closed"

(***************************************************************************)
(* C19: a record other than metadata when a new file is expected, or other *)
(* than file-end once a file's payload is complete, fails the session: the *)
(* error is surfaced and the socket closed.                                *)
(***************************************************************************)
C19_UnexpectedClosesSocket ==
  (\E i \in 1..Len(rcvLog) : rcvLog[i].ev = "unexpected") => rsock[Conn] = "closed"

(***************************************************************************)
(* C20: when writing a received file fails, no file-saved is sent for that *)
(* file and the file is abandoned: the receiver is back in control mode,   *)
(* or on a later file.                                                     *)
(***************************************************************************)
C20_AbortOnWriteFailure ==
  \A i \in 1..Len(rcvLog) :
    rcvLog[i].ev = "write-failed" =>
      /\ rcv.currentFileMetadata.id # rcvLog[i].id
      /\ \A j \in 1..Len(rcvLog) :
            rcvLog[j].ev = "file-saved" => rcvLog[j].id # rcvLog[i].id

(***************************************************************************)
(* C21: when the stat of a path fails during sendFiles, no metadata frame  *)
(* is written for that file, sendFiles rejects, no later file of the list  *)
(* is sent and transfer-complete is not emitted.                           *)
(***************************************************************************)
\* the step in which a call is rejected for a failed stat
StatRejects ==
  /\ sf'.result = "rejected: stat"
  /\ calls' # calls \/ sf.result = "pending"

C21_StatFailure ==
  [][ /\ StatRejects =>
           /\ wire' = wire /\ fileSeq' = fileSeq
           /\ sf'.phase = "idle" /\ sf'.completes = 0
      /\ (sf.result = "rejected: stat" /\ calls' = calls) =>
           /\ sf' = sf /\ fileSeq' = fileSeq
           /\ Len(wire') <= Len(wire) ]_vars

C21_Witness ==
  /\ sf.result = "rejected: stat"
  /\ Len(sf.paths) = 3 /\ sf.ended = <<"file-saved">>
  /\ rsock[Conn] = "open" /\ snd.client = Conn

(***************************************************************************)
(* C22: for every sequence of up and down events within the window, the    *)
(* list discoverServices resolves with holds one entry for each service    *)
(* name that is up and none for a name that is down, in the order in which *)
(* the services came up.                                                   *)
(***************************************************************************)
C22_DiscoveredList ==
  browser = "stopped" =>
    /\ \A n \in PeerNames :
         Cardinality({i \in 1..Len(discovered) : discovered[i].name = n})
           = IF upAt[n] # 0 THEN 1 ELSE 0
    /\ \A i, j \in 1..Len(discovered) :
         i < j => upAt[discovered[i].name] < upAt[discovered[j].name]

C22_Witness ==
  /\ browser = "stopped"
  /\ Len(discovered) = 2
  /\ tick = MaxEvents
  /\ \E n \in PeerNames : upAt[n] = 0

(***************************************************************************)
(* C23: publishing is idempotent and tied to the listener: whenever an     *)
(* advertisement exists, the sender has a listener and the advertised port *)
(* is that listener's port.                                                *)
(***************************************************************************)
C23_AdvertisedPort ==
  snd.bonjourService # NULL =>
    /\ snd.server # NULL /\ snd.server \in listeners
    /\ snd.bonjourService = snd.server

(***************************************************************************)
(* C24: at most one TCP listener is open after any sequence of startSender *)
(* and stopSender calls, and none once stopSender was the last of them.    *)
(***************************************************************************)
C24_OneListener ==
  /\ Cardinality(listeners) <= 1
  /\ snd.isStopping => listeners = {}

(***************************************************************************)
(* C25: the remote sender sends chunk i, for i at least the window size W, *)
(* only when it has recorded a chunk-ack of this transfer with             *)
(* receivedChunks of at least i - W, or when the bounded wait for that ACK *)
(* has timed out; so no more than W chunks are sent and unacknowledged.    *)
(***************************************************************************)
ChunkSent == rs.phase = "sending" /\ rs'.i = rs.i + 1

C25_SlidingWindow ==
  [][ChunkSent /\ rs.i >= WindowSize =>
        \/ rs.acknowledgedChunks >= rs.i - WindowSize
        \/ rs'.timedOut]_vars

(***************************************************************************)
(* C26: when a remote call sends the same file name twice, the receiver    *)
(* keeps the two transfers apart: each gets a file of its own on disk, and *)
(* every chunk a file holds is a chunk of the transfer the file was        *)
(* created for, also when the chunk arrived before initFileStream          *)
(* resolved for that transfer.                                             *)
(***************************************************************************)
SameNameTwice ==
  /\ Len(rs.files) = 2
  /\ rs.files[1].fileName = rs.files[2].fileName

OwnChunks(file) ==
  \A j \in DOMAIN file.chunks : file.chunks[j].transferId = file.transferId

C26_TransfersApart ==
  SameNameTwice =>
    /\ \A m, n \in DOMAIN diskFiles :
         m # n => /\ diskFiles[m].fileName # diskFiles[n].fileName
                  /\ diskFiles[m].transferId # diskFiles[n].transferId
    /\ \A n \in DOMAIN diskFiles : OwnChunks(diskFiles[n])

(***************************************************************************)
(* C27: on file-complete the remote receiver finalizes the file only after *)
(* every chunk received for that transfer has been written to disk in      *)
(* arrival order, or after its bounded wait for the write queue has timed  *)
(* out; without that timeout a finalized file holds the chunks the sender  *)
(* sent, in order.                                                         *)
(***************************************************************************)
ChunksSent(transferId) ==
  [j \in 1..rs.files[transferId].totalChunks |->
     RemoteChunk(transferId, j - 1)]

C27_FinalizedComplete ==
  \A n \in DOMAIN diskFiles :
    diskFiles[n].finalized /\ diskFiles[n].drained =>
      diskFiles[n].chunks = ChunksSent(diskFiles[n].transferId)

(***************************************************************************)
(* C31: the sender acts on the auth record however the transport segments  *)
(* it: once all its bytes have been delivered on a socket that is still    *)
(* open, the sender has compared its code, and a receiver that sent the    *)
(* sender's code is authenticated.                                         *)
(***************************************************************************)
C31_SegmentedAuth ==
  back = <<>> /\ sock[Conn] = "open" =>
    /\ verdict[Conn] # "none"
    /\ verdict[Conn] = "match" => isAuthenticated[Conn]

(***************************************************************************)
(* C36: the sender's this.client is cleared only by the close of the       *)
(* socket it names, the current authenticated client, or by stopSender:    *)
(* the close of any other connection leaves it in place.                   *)
(***************************************************************************)
ClientCleared == snd.client # NULL /\ snd'.client = NULL

ClientSocketCloses ==
  sock[snd.client] # "closed" /\ sock'[snd.client] = "closed"

StopSenderRuns ==
  /\ snd'.isStopping /\ snd'.server = NULL
  /\ sock' = Destroy(sock, snd.client)
  /\ listeners' = listeners \ {snd.server}

C36_ClientKept ==
  [][ClientCleared => ClientSocketCloses \/ StopSenderRuns]_vars

(***************************************************************************)
(* C32: once a write of the local sender has reported a full socket        *)
(* buffer, no further block of the file is read or written until the       *)
(* socket's drain, and the drain resumes the reading; so while the         *)
(* connection stands and part of the file is still to be written, the      *)
(* stream is flowing or a drain will resume it, and the whole file gets    *)
(* written to the socket.                                                  *)
(***************************************************************************)
Paused == sf.phase = "paused"

FileToWrite ==
  /\ sf.phase \in {"reading", "paused", "stalled"}
  /\ sf.pos < Len(srcFiles[sf.paths[sf.i]])

ConnectionLost == sock[Conn] # "open" \/ rsock[Conn] # "open"

ReadOrDrain == Drain \/ \E canContinue \in BOOLEAN : ReadData(canContinue)

C32_Backpressure ==
  /\ [][Paused => sf'.pos = sf.pos /\ Len(wire') <= Len(wire)]_vars
  /\ [][Paused /\ ~Paused' => sf'.phase = "reading"]_vars
  /\ [](FileToWrite /\ ~ConnectionLost => ENABLED ReadOrDrain)

(***************************************************************************)
(* C33: the remote receiver sends a chunk-ack for a transfer exactly when  *)
(* the chunk it has just counted makes receivedChunks a multiple of the    *)
(* ACK interval or equal to totalChunks, and the ACK carries that count;   *)
(* the counts acknowledged for one transfer are strictly increasing and    *)
(* never exceed the number of chunks the sender has sent for it.           *)
(***************************************************************************)
\* the chunks the sender has sent for a transfer
ChunksSentFor(transferId) ==
  IF transferId = rs.fileIndex THEN rs.i
  ELSE IF transferId < rs.fileIndex THEN rs.files[transferId].totalChunks
  ELSE 0

AcksInFlight(transferId) ==
  SelectSeq(toOwner, LAMBDA a : a.transferId = transferId)

ChunkCounted(transferId) ==
  /\ rr.incomingFiles[transferId].present
  /\ rr'.incomingFiles[transferId].present
  /\ rr'.incomingFiles[transferId].receivedChunks =
       rr.incomingFiles[transferId].receivedChunks + 1

AckDue(file) ==
  \/ file.receivedChunks % WindowSize = 0
  \/ file.receivedChunks = file.totalChunks

C33_ChunkAcks ==
  /\ [](\A t \in Tids :
          LET acks == AcksInFlight(t)
          IN /\ \A j \in DOMAIN acks : acks[j].receivedChunks <= ChunksSentFor(t)
             /\ \A j, k \in DOMAIN acks :
                  j < k => acks[j].receivedChunks < acks[k].receivedChunks
             /\ \A j \in DOMAIN acks :
                  /\ rs.fileIndex = t /\ rs.phase = "sending"
                       => acks[j].receivedChunks > rs.acknowledgedChunks
                  /\ rr.incomingFiles[t].present
                       => acks[j].receivedChunks <= rr.incomingFiles[t].receivedChunks)
  /\ [][\A t \in Tids :
          /\ ChunkCounted(t) =>
               LET file == rr'.incomingFiles[t]
                   ack == [ type |-> "chunk-ack", transferId |-> t,
                            receivedChunks |-> file.receivedChunks ]
               IN IF AckDue(file) THEN toOwner' = Append(toOwner, ack)
                  ELSE toOwner' = toOwner
          /\ ~(\E u \in Tids : ChunkCounted(u)) =>
               Len(AcksInFlight(t)') <= Len(AcksInFlight(t))]_vars

C33_Witness ==
  \E t \in Tids :
    /\ Len(AcksInFlight(t)) = 2
    /\ rr.incomingFiles[t].receivedChunks = rr.incomingFiles[t].totalChunks
    /\ rr.incomingFiles[t].totalChunks % WindowSize # 0

(***************************************************************************)
(* C34: the remote sender sends file-complete exactly once for every file  *)
(* of the call, after all totalChunks chunks of the file were sent in      *)
(* index order and after the final ACK arrived or the final wait timed     *)
(* out; no missing ACK keeps it from sending.                              *)
(***************************************************************************)
FileCompleteSent == Len(rs'.completed) = Len(rs.completed) + 1

LastSent == toPeer'[Len(toPeer')]

\* a step of the file loop is possible
SenderStep ==
  \/ \E timeout, readOk \in BOOLEAN : SendFileChunk(timeout, readOk)
  \/ \E timeout \in BOOLEAN : SendFileComplete(timeout)

\* how file-complete and the chunks are sent
CompleteAfterChunks ==
  /\ [][FileCompleteSent =>
          /\ rs.phase = "sending"
          /\ rs.i = rs.files[rs.fileIndex].totalChunks
          /\ rs.acknowledgedChunks >= rs.i \/ rs'.timedOut
          /\ rs'.completed = Append(rs.completed, rs.fileIndex)
          /\ toPeer' = Append(toPeer, LastSent)
          /\ LastSent.type = "file-complete"
          /\ LastSent.transferId = rs.fileIndex]_vars
  /\ [][ChunkSent =>
          /\ toPeer' = Append(toPeer, LastSent)
          /\ LastSent.type = "file-chunk"
          /\ LastSent.transferId = rs.fileIndex
          /\ LastSent.chunkIndex = rs.i]_vars
  /\ [][toPeer' # toPeer /\ ~FileCompleteSent /\ Len(toPeer') > Len(toPeer) =>
          LastSent.type # "file-complete"]_vars
  /\ [](rs.phase = "sending" => ENABLED SenderStep)

C34_FileCompleteOnce ==
  /\ CompleteAfterChunks
  /\ [](rs.phase = "done" =>
          rs.completed = [k \in 1..Len(rs.files) |-> k])

\* the same for the files whose size and chunks are read without an error:
\* a file whose read throws gets no file-complete
C34_FileCompleteOnceRead ==
  /\ CompleteAfterChunks
  /\ [](/\ \A j, k \in DOMAIN rs.completed :
             j < k => rs.completed[j] < rs.completed[k]
        /\ \A j \in DOMAIN rs.completed : rs.completed[j] \notin rs.failed
        /\ rs.phase = "done" =>
             \A k \in 1..Len(rs.files) :
               k \in rs.failed \/ \E j \in DOMAIN rs.completed : rs.completed[j] = k)

C34_Witness ==
  /\ rs.phase = "done"
  /\ Len(rs.files) = 2
  /\ rs.completed = <<1, 2>>
  /\ rs.files[2].totalChunks > WindowSize
  /\ rs.timedOut

(***************************************************************************)
(* C35: per transferId the remote receiver's disk writes are serialised:   *)
(* at most one appendFileChunk is in flight, the flushes reach the file    *)
(* in the order they were enqueued and none is lost, also when chunks were *)
(* flushed before initFileStream resolved.                                 *)
(***************************************************************************)
AppendsInFlight(transferId) ==
  { n \in DOMAIN rr.invocations :
      /\ rr.invocations[n].channel = "append-file-chunk"
      /\ rr.invocations[n].transferId = transferId }

\* the chunks of the flushes of a transfer that wait in a queue or are on
\* their way to the disk
RECURSIVE Flat(_)
Flat(items) ==
  IF items = <<>> THEN <<>> ELSE Head(items) \o Flat(Tail(items))

InFlightData(transferId) ==
  Flat([n \in 1..Len(rr.invocations) |->
          IF n \in AppendsInFlight(transferId)
          THEN rr.invocations[n].data ELSE <<>>])

\* the chunks the files of a transfer hold
OnDisk(transferId) ==
  Flat([n \in 1..Len(diskFiles) |->
          IF diskFiles[n].transferId = transferId
          THEN diskFiles[n].chunks ELSE <<>>])

\* the queues that hold flushes of a transfer: the one fileWriteQueues has
\* for it and those a write loop of the transfer still works on
QueuesOf(transferId) ==
  { q \in DOMAIN rr.queues :
      \/ q = rr.fileWriteQueues[transferId]
      \/ \E n \in AppendsInFlight(transferId) : rr.invocations[n].queue = q }

Queued(transferId) ==
  Flat([q \in 1..Len(rr.queues) |->
          IF q \in QueuesOf(transferId)
          THEN Flat(rr.queues[q].items) ELSE <<>>])

C35_WritesSerialised ==
  \A transferId \in Tids :
    LET file == rr.incomingFiles[transferId]
    IN /\ Cardinality(AppendsInFlight(transferId)) <= 1
       /\ file.present /\ file.completing = "no" =>
            OnDisk(transferId) \o InFlightData(transferId)
              \o Queued(transferId) \o file.bufferQueue
            = [j \in 1..file.receivedChunks |-> RemoteChunk(transferId, j - 1)]

(***************************************************************************)
(* C37: the acknowledgement wait of a file is ended only by a file-saved   *)
(* frame the receiver sent for that file or by that file's own 30 s timer: *)
(* neither a timer armed for an earlier file nor a late file-saved of an   *)
(* earlier file ends the wait of a later file.                             *)
(***************************************************************************)
AckWaitEnds == sf.phase = "waiting" /\ Len(sf'.ended) = Len(sf.ended) + 1

C37_OwnAckOnly ==
  [][AckWaitEnds =>
       /\ snd.fileSavedResolver = sf.id
       /\ sf'.ended[Len(sf'.ended)] \in {"file-saved", "timeout"}]_vars

(***************************************************************************)
(* C38: frames of different sendFiles calls do not interleave on the       *)
(* socket and each call keeps its own acknowledgement wait: while a call   *)
(* is between a metadata frame and its file-end, the other call writes     *)
(* nothing, and while two calls are in progress a pending file-saved       *)
(* resolver is not replaced by another.                                    *)
(***************************************************************************)
\* the call has written a metadata frame and not yet its file-end
InFile(call) ==
  call.phase \in {"reading", "paused", "stalled", "ended"}

\* the sender writes to the socket
SenderWrites == Len(wire') > Len(wire)

\* the call that does not take the step
CallAside == IF sf.other = NoOther /\ sf'.other # NoOther THEN sf ELSE sf.other

C38_CallsApart ==
  /\ [][SenderWrites => ~InFile(CallAside)]_vars
  /\ [][/\ sf.other # NoOther
        /\ sf.phase # "idle" /\ sf.other.phase # "idle"
        /\ snd.fileSavedResolver # NULL
        => snd'.fileSavedResolver \in {NULL, snd.fileSavedResolver}]_vars

(***************************************************************************)
(* C39: in every sendFilesToRemote call on a connection, the first and the *)
(* later ones, a chunk-ack that arrives for the transfer in progress sets  *)
(* that transfer's acknowledged count to the count it carries.             *)
(***************************************************************************)
\* the sender's listener takes a chunk-ack of the transfer being sent
AckForTransferInProgress ==
  /\ toOwner # <<>>
  /\ toOwner' = Tail(toOwner)
  /\ rs.phase = "sending"
  /\ Head(toOwner).transferId = rs.fileIndex

C39_AckRecorded ==
  [][AckForTransferInProgress =>
       rs'.acknowledgedChunks = Head(toOwner).receivedChunks]_vars

(***************************************************************************)
(* C40: on the local receiver every byte that arrives after the            *)
(* auth-success reply is fed to the frame parser exactly once and no byte  *)
(* of the handshake reply is: what comes in the data event of auth-success *)
(* after the reply is parsed, and a reply that comes in two data events    *)
(* does not enter the frame buffer.                                        *)
(***************************************************************************)
\* what a data event of the receiver took from the socket
Taken == SubSeq(wire, 1, Len(wire) - Len(wire'))

ReceiverTakes ==
  /\ Len(wire') < Len(wire)
  /\ rclient' = rclient
  /\ rsock'[Conn] = "open"

\* the frame parser was fed data, once
Fed(data) ==
  \E writeOk \in BOOLEAN :
    rcv' = ProcessDataBuffer(Machine(rcv, data, rcvLog, writeOk, writeFailed)).svc

C40_ReplyApart ==
  /\ [](\A i \in DOMAIN rcv.dataBuffer :
          rcv.dataBuffer[i] # JsonOpen("auth-success", NoData))
  /\ [][/\ ReceiverTakes
        /\ promise[Conn] = "pending" /\ promise'[Conn] = "resolved"
        /\ Len(Taken) >= Len(AuthSuccessReply)
        /\ SubSeq(Taken, 1, Len(AuthSuccessReply)) = AuthSuccessReply
        => Fed(Drop(Taken, Len(AuthSuccessReply)))]_vars
  /\ [][ReceiverTakes /\ promise[Conn] = "resolved" => Fed(Taken)]_vars

(***************************************************************************)
(* C28: for each file, the transfer-progress events of the sender, and     *)
(* those of the receiver, carry progress values that are non-decreasing,   *)
(* lie in 0..100 and end with 100.  The file has ended for the sender when *)
(* its stream has, and for the receiver when it is saved.                  *)
(***************************************************************************)
NonDecreasing(events) ==
  \A i, j \in 1..Len(events) : i < j => events[i] <= events[j]

InRange(events) == \A i \in 1..Len(events) : events[i] \in 0..100

EndsWith100(events) == events # <<>> /\ events[Len(events)] = 100

C28_ProgressEvents ==
  /\ NonDecreasing(tp.senderEvents) /\ InRange(tp.senderEvents)
  /\ NonDecreasing(tp.receiverEvents) /\ InRange(tp.receiverEvents)
  /\ tp.phase \in {"ended", "waiting"} => EndsWith100(tp.senderEvents)
  /\ tp.saved => EndsWith100(tp.receiverEvents)

\* amended: the receiver's events end with 100 for a file that is not empty
C28_ProgressEventsNonEmpty ==
  /\ NonDecreasing(tp.senderEvents) /\ InRange(tp.senderEvents)
  /\ NonDecreasing(tp.receiverEvents) /\ InRange(tp.receiverEvents)
  /\ tp.phase \in {"ended", "waiting"} => EndsWith100(tp.senderEvents)
  /\ tp.saved =>
       IF tp.fileSize > 0 THEN EndsWith100(tp.receiverEvents)
       ELSE tp.receiverEvents = <<>>

C28_Witness ==
  /\ tp.saved /\ tp.fileSize = MaxSize
  /\ Len(tp.senderEvents) = 4
  /\ Len(tp.receiverEvents) = 3

(***************************************************************************)
(* C29: shutdown is idempotent and deduplicated: however often             *)
(* cleanupIPCHandlers has run, afterwards no listener, client socket,      *)
(* advertisement or discovery instance remains.                            *)
(***************************************************************************)
C29_NothingRemains ==
  ~localTransferService =>
    /\ listeners = {} /\ snd.server = NULL
    /\ snd.client = NULL
    /\ snd.bonjourService = NULL
    /\ ~snd.bonjour

(***************************************************************************)
(* C30: an accepted socket that has presented no auth record has its 10 s  *)
(* timer armed, and the timer's expiry destroys it and leaves the listener *)
(* alone; an authenticated socket has no timer armed, so the timer never   *)
(* destroys it.                                                            *)
(***************************************************************************)
\* the step in which the timer of socket s expires: the timer goes while
\* no record is consumed and the peer has not closed
TimerExpires(s) ==
  /\ authTimeout[s] /\ ~authTimeout'[s]
  /\ sock[s] = "open" /\ rsock[s] = "open"
  /\ toSender'[s] = toSender[s]

C30_AuthTimer ==
  /\ [](\A s \in Socks : isAuthenticated[s] => ~authTimeout[s])
  /\ [](\A s \in Socks : (sock[s] = "open" /\ verdict[s] = "none") => authTimeout[s])
  /\ [][ \A s \in Socks :
           TimerExpires(s) =>
             /\ ~isAuthenticated[s] /\ sock'[s] = "destroyed"
             /\ listeners' = listeners /\ snd' = snd ]_vars

C30_Witness ==
  \E s \in Socks :
    /\ sock[s] = "destroyed" /\ verdict[s] = "none" /\ ~isAuthenticated[s]
    /\ snd.server # NULL /\ snd.server \in listeners

(***************************************************************************)
(* C8: getUniqueFileName(name, dir) returns name itself when dir holds no  *)
(* entry of that name, and otherwise "base (k)ext" for the least k >= 1    *)
(* such that dir holds no entry of that name; the returned name never      *)
(* names an existing entry.                                                *)
(***************************************************************************)
C8_Numbered(name, k) ==
  NumberedName(BaseName(name, ExtName(name)), k, ExtName(name))

C8_UniqueName ==
  nmReq # <<>> =>
    /\ nmRes \notin nmBefore
    /\ nmReq \notin nmBefore => nmRes = nmReq
    /\ nmReq \in nmBefore =>
         \E k \in 1..(Cardinality(nmBefore) + 1) :
           /\ nmRes = C8_Numbered(nmReq, k)
           /\ \A j \in 1..(k - 1) : C8_Numbered(nmReq, j) \in nmBefore

\* the name and its first numbered variant exist: the second is returned
C8_Witness ==
  /\ nmReq = <<"a", ".", "t">>
  /\ nmReq \in nmBefore
  /\ nmRes = <<"a", " ", "(", "2", ")", ".", "t">>

====
